---- MODULE Spec2Model ----
(***************************************************************************)
(* AudioMine: a model of the metadata handler (format dispatch + mtime     *)
(* cache), the playlist and library managers (in-memory lists persisted to *)
(* JSON) and the player facade with its controls.                          *)
(*                                                                         *)
(* Text (paths, titles, tag values) is modelled as sequences of one-       *)
(* character strings, so that the file-name functions of the code          *)
(* (basename, splitext, split, strip, replace) are computed and not        *)
(* assumed.                                                                *)
(***************************************************************************)
EXTENDS Integers, Sequences, FiniteSets, TLC

(***************************************************************************)
(* Bounds of the model                                                     *)
(***************************************************************************)
\* modification times of a file range over 0..MaxMtime
MaxMtime == 1

\* a file dialog returns at most MaxPaths paths
MaxPaths == 2

\* at most MaxScans scans are under way at a time
MaxScans == 2

\* a track is MaxLength steps of the engine's clock long
MaxLength == 3

(***************************************************************************)
(* Text helpers: Python's str and os.path functions used by the code       *)
(***************************************************************************)
SetMin(S) == CHOOSE i \in S : \A j \in S : i <= j

SetMax(S) == CHOOSE i \in S : \A j \in S : j <= i

\* the (1-based) positions at which sub occurs in s
Occurs(s, sub) == {i \in 1..(Len(s) - Len(sub) + 1) : SubSeq(s, i, i + Len(sub) - 1) = sub}

\* str.find, 1-based; 0 when sub does not occur
Find(s, sub) == IF Occurs(s, sub) = {} THEN 0 ELSE SetMin(Occurs(s, sub))

\* str.rfind, 1-based; 0 when sub does not occur
RFind(s, sub) == IF Occurs(s, sub) = {} THEN 0 ELSE SetMax(Occurs(s, sub))

\* s[i:j] of Python for 1-based inclusive bounds, empty when the range is empty
Slice(s, i, j) == IF i > j THEN <<>> ELSE SubSeq(s, i, j)

\* sub in s
Contains(s, sub) == Occurs(s, sub) # {}

RECURSIVE lstrip(_)
lstrip(s) == IF s # <<>> /\ Head(s) = " " THEN lstrip(Tail(s)) ELSE s

RECURSIVE rstrip(_)
rstrip(s) == IF s # <<>> /\ s[Len(s)] = " " THEN rstrip(SubSeq(s, 1, Len(s) - 1)) ELSE s

\* str.strip()
strip(s) == rstrip(lstrip(s))

\* str.replace(sub, ''): every occurrence, left to right
RECURSIVE RemoveAll(_, _)
RemoveAll(s, sub) ==
    IF Find(s, sub) = 0 THEN s
    ELSE Slice(s, 1, Find(s, sub) - 1)
           \o RemoveAll(Slice(s, Find(s, sub) + Len(sub), Len(s)), sub)

Digits == {"0", "1", "2", "3", "4", "5", "6", "7", "8", "9"}

DigitVal(c) == CASE c = "0" -> 0 [] c = "1" -> 1 [] c = "2" -> 2 [] c = "3" -> 3
                 [] c = "4" -> 4 [] c = "5" -> 5 [] c = "6" -> 6 [] c = "7" -> 7
                 [] c = "8" -> 8 [] c = "9" -> 9

\* str.isdigit(): non-empty and digits only
isdigit(s) == s # <<>> /\ \A i \in 1..Len(s) : s[i] \in Digits

\* int(s) for a string of digits
RECURSIVE ToInt(_)
ToInt(s) == IF s = <<>> THEN 0 ELSE 10 * ToInt(SubSeq(s, 1, Len(s) - 1)) + DigitVal(s[Len(s)])

\* str.lower() on the letters the model uses
LowerChar(c) == CASE c = "A" -> "a" [] c = "T" -> "t" [] c = "M" -> "m" [] c = "P" -> "p"
                  [] c = "W" -> "w" [] c = "V" -> "v" [] OTHER -> c

lower(s) == [i \in 1..Len(s) |-> LowerChar(s[i])]

\* os.path.basename: what follows the last separator
basename(p) == Slice(p, RFind(p, <<"/">>) + 1, Len(p))

\* os.path.splitext: the extension starts at the last dot of the last path
\* component, unless only dots precede it in that component
HasExt(p) ==
    /\ RFind(p, <<".">>) > RFind(p, <<"/">>)
    /\ \E k \in (RFind(p, <<"/">>) + 1)..(RFind(p, <<".">>) - 1) : p[k] # "."

splitext_root(p) == IF HasExt(p) THEN Slice(p, 1, RFind(p, <<".">>) - 1) ELSE p

splitext_ext(p) == IF HasExt(p) THEN Slice(p, RFind(p, <<".">>), Len(p)) ELSE <<>>


(***************************************************************************)
(* State                                                                   *)
(***************************************************************************)
VARIABLES
    \* --- disk and metadata handler (src/core/metadata_handler.py)
    fs,                 \* the audio files on disk: path -> [mtime, hasTitle, title, bad]
    MUTAGEN_AVAILABLE,  \* whether the tagging library could be imported
    cache,              \* MetadataHandler.cache: path -> record
    fresh,              \* history: paths extracted since their file last changed
    mdLast,             \* history: the last metadata call and what it returned
    \* --- playlist manager (src/core/playlist_manager.py) and playlist view
    playlists,          \* PlaylistManager.playlists, a dict in insertion order:
                        \*   sequence of [name, tracks]
    current_playlist,   \* PlaylistManager.current_playlist (None when unset)
    current_track_index,\* PlaylistManager.current_track_index
    plEmitted,          \* the signals the manager emitted during the last operation
    plRet,              \* the value the last manager operation returned
    plTrack,            \* the path the last next_track or previous_track returned
                        \*   (<<>> for None, and after any other operation)
    plLast,             \* history: the last playlist operation and its arguments
    plFile,             \* playlists.json: [exists, bad, shape, obj]
    plSaved,            \* history: the playlists whose dump the file holds
    selItems,           \* PlaylistView.playlist_selector: its items
    selCur,             \* PlaylistView.playlist_selector: currentText()
    \* --- library manager (src/core/library_manager.py)
    library,            \* LibraryManager.library: a list of paths
    scanners,           \* the ScannerWorker objects under way, in order of
                        \*   creation: [directory, abort, status, files]
    scanQueue,          \* the finished signals posted to the main thread and not
                        \*   yet handled: indices into scanners
    current_scanner,    \* LibraryManager.current_scanner: an index, 0 for None
    libFile,            \* music_library.json: [exists, bad, list]
    libEmitted,         \* the signals the manager emitted during the last operation
    libRet,             \* the value the last manager operation returned, an integer
                        \*   (Python's False and True are the integers 0 and 1)
    libLast,            \* history: the last library operation and its arguments
    \* --- player (src/core/player.py) and player controls
    vlc_available,      \* Player.vlc_available
    current_media,      \* Player.current_media (the empty text for None)
    media_player,       \* the engine: [state, media, time, length, volume], volume
                        \*   being <<>> until audio_set_volume(v) makes it <<v>>
    current_track_path, \* PlayerControls.current_track_path
    volume_slider,      \* PlayerControls.volume_slider.value()
    progress_slider,    \* PlayerControls.progress_slider.value()
    is_slider_pressed,  \* PlayerControls.is_slider_pressed
    play_pause_button,  \* PlayerControls.play_pause_button: TRUE when it shows the
                        \*   pause glyph (set_playing_state(True)), FALSE for play
    window_title,       \* MainWindow.windowTitle(): the path of the track whose
                        \*   title and artist it names, <<>> for the bare APP_NAME
    current_time_label, \* PlayerControls.current_time_label: <<minutes, seconds>>
    total_time_label,   \* PlayerControls.total_time_label: <<minutes, seconds>>
    pyEmitted,          \* the signals the player emitted during the last handler
    pyRet,              \* the value the last facade call of the last handler
                        \*   returned (FALSE when it made none)
    pyState,            \* history: the state of the last stateChanged emitted
                        \*   ("" when none was)
    pyLast,             \* history: the last player operation and its arguments
    \* --- the standalone player (main_player.py)
    music_player,       \* the MusicPlayer window: [vlc_available, media_player,
                        \*   playlist, current_track_index, is_playing,
                        \*   is_slider_pressed, progress_slider, current_time_label,
                        \*   total_time_label, play_pause_button]
    mpLast              \* history: the last operation of the standalone player, the
                        \*   engine state and the index it found

mdVars == <<fs, MUTAGEN_AVAILABLE, cache, fresh, mdLast>>

plVars == <<playlists, current_playlist, current_track_index, plEmitted, plRet, plTrack, plLast,
            plFile, plSaved, selItems, selCur>>

libVars == <<library, scanners, scanQueue, current_scanner, libFile, libEmitted, libRet,
             libLast>>

sliderVars == <<volume_slider, progress_slider, is_slider_pressed>>

labelVars == <<current_time_label, total_time_label>>

pyVars == <<vlc_available, current_media, media_player, current_track_path, sliderVars,
            labelVars, play_pause_button, window_title, pyEmitted, pyRet, pyState,
            pyLast>>

mpVars == <<music_player, mpLast>>

vars == <<mdVars, plVars, libVars, pyVars, mpVars>>

(***************************************************************************)
(* Metadata handler                                                        *)
(***************************************************************************)
UnknownArtist == <<"U", "n", "k", "n", "o", "w", "n", " ", "A", "r", "t", "i", "s", "t">>

UnknownYear == <<"U", "n", "k", "n", "o", "w", "n", " ", "Y", "e", "a", "r">>

UnknownFile == <<"U", "n", "k", "n", "o", "w", "n", " ", "f", "i", "l", "e">>

\* the file names the model extracts metadata from
P_song == <<"m", "/", "s", "o", "n", "g", ".", "m", "p", "3">>

P_artistTitle == <<"m", "/", "A", " ", "-", " ", "T", ".", "m", "p", "3">>

P_titleYear == <<"m", "/", "A", " ", "-", " ", "T", " ", "[", "2", "0", "2", "0", "]", ".", "m", "p", "3">>

P_yearOnly == <<"m", "/", "A", " ", "-", " ", "[", "2", "0", "2", "0", "]", ".", "m", "p", "3">>

P_wav == <<"m", "/", "x", ".", "w", "a", "v">>

P_upper == <<"m", "/", "x", ".", "W", "M", "A">>

P_fixed == <<"m", "/", "b", ".", "o", "g", "g">>

\* the paths the model rewrites and asks metadata for
MetaPaths == {P_song, P_artistTitle, P_titleYear, P_yearOnly, P_wav, P_upper}

\* what a file can hold: no title tag, a title tag, an empty title tag, or
\* bytes the tagging library cannot parse (bad)
TagTitle == <<"T", "1">>

NoTags == [hasTitle |-> FALSE, title |-> <<>>, bad |-> FALSE]

Contents ==
    { NoTags,
      [hasTitle |-> TRUE, title |-> TagTitle, bad |-> FALSE],
      [hasTitle |-> TRUE, title |-> <<>>, bad |-> FALSE],
      [hasTitle |-> FALSE, title |-> <<>>, bad |-> TRUE] }

FileOf(m, c) == [mtime |-> m, hasTitle |-> c.hasTitle, title |-> c.title, bad |-> c.bad]

\* a record without the '_mtime' key: dict.get('_mtime') is None
NoMtime == -1

\* the formats whose extractor swallows every parser error
GuardedExts == { <<".", "m", "p", "3">>, <<".", "f", "l", "a", "c">>, <<".", "m", "4", "a">>, <<".", "a", "a", "c">>, <<".", "m", "p", "4">>, <<".", "o", "g", "g">> }

\* title_part[title_part.find('[') + 1 : title_part.find(']')]
BracketContent(t) == Slice(t, Find(t, <<"[">>) + 1, Find(t, <<"]">>) - 1)

IsYear(b) == isdigit(b) /\ 1900 <= ToInt(b) /\ ToInt(b) <= 2100

\* the parts of filename.split(' - ', 1)
SplitHead(f) == Slice(f, 1, Find(f, <<" ", "-", " ">>) - 1)

SplitTail(f) == Slice(f, Find(f, <<" ", "-", " ">>) + 3, Len(f))

HasYearBracket(t) == Contains(t, <<"[">>) /\ Contains(t, <<"]">>) /\ IsYear(BracketContent(t))

\* MetadataHandler._create_basic_metadata
BasicFromName(filename, file_path) ==
    IF Contains(filename, <<" ", "-", " ">>)
    THEN [ title  |-> IF HasYearBracket(SplitTail(filename))
                      THEN strip(RemoveAll(strip(SplitTail(filename)),
                                           <<"[">> \o BracketContent(SplitTail(filename)) \o <<"]">>))
                      ELSE strip(SplitTail(filename)),
           artist |-> strip(SplitHead(filename)),
           year   |-> IF HasYearBracket(SplitTail(filename))
                      THEN BracketContent(SplitTail(filename))
                      ELSE UnknownYear,
           path   |-> file_path,
           mtime  |-> NoMtime ]
    ELSE [ title |-> filename, artist |-> UnknownArtist, year |-> UnknownYear,
           path |-> file_path, mtime |-> NoMtime ]

_create_basic_metadata(file_path) == BasicFromName(splitext_root(basename(file_path)), file_path)

\* _create_basic_metadata of every path of the model, computed once
BasicOf == [p \in MetaPaths \cup {P_fixed, UnknownFile} |-> _create_basic_metadata(p)]

\* os.path.splitext(os.path.basename(file_path))[0] of every path of the model
StemOf == [p \in MetaPaths \cup {P_fixed, UnknownFile} |-> splitext_root(basename(p))]

\* os.path.splitext(file_path)[1].lower() of every path of the model
ExtOf == [p \in MetaPaths \cup {P_fixed, UnknownFile} |-> lower(splitext_ext(p))]

\* the defaults _extract_with_mutagen starts from
DefaultMetadata(file_path) ==
    [ title |-> StemOf[file_path], artist |-> UnknownArtist,
      year |-> UnknownYear, path |-> file_path, mtime |-> NoMtime ]

\* whether _extract_with_mutagen raises: only the generic branch calls the
\* tagging library outside a try block
ExtractRaises(file_path, f) == f.bad /\ ExtOf[file_path] \notin GuardedExts

\* MetadataHandler._extract_with_mutagen (when it does not raise)
_extract_with_mutagen(file_path, f) ==
    IF ~f.bad /\ f.hasTitle
    THEN [DefaultMetadata(file_path) EXCEPT !.title = f.title]
    ELSE DefaultMetadata(file_path)

\* the next definition with the comparison of modification times left out
CacheHitAnyMtime(file_path, file_mtime) == file_path \in DOMAIN cache

\* line 49: file_path in self.cache and self.cache[file_path].get('_mtime') == file_mtime
CacheHit(file_path, file_mtime) ==
    file_path \in DOMAIN cache /\ cache[file_path].mtime = file_mtime

\* self.cache[file_path] = record
CachePut(c, file_path, rec) ==
    [q \in DOMAIN c \cup {file_path} |-> IF q = file_path THEN rec ELSE c[q]]

\* how extract_metadata produces its record for an existing file that is not cached
HowExtracted(file_path) ==
    IF ~MUTAGEN_AVAILABLE THEN "nomutagen"
    ELSE IF ExtractRaises(file_path, fs[file_path]) THEN "error"
    ELSE "mutagen"

Extracted(file_path) ==
    IF HowExtracted(file_path) = "mutagen"
    THEN [_extract_with_mutagen(file_path, fs[file_path]) EXCEPT !.mtime = fs[file_path].mtime]
    ELSE BasicOf[file_path]

\* history: the cache holds a record of file_path taken at another modification time
StaleEntry(file_path) ==
    file_path \in DOMAIN cache /\ cache[file_path].mtime # fs[file_path].mtime

\* no metadata call since the last change of the disk or of the cache
NoCall == [ op |-> "none", path |-> <<>>, how |-> "none", rec |-> BasicOf[UnknownFile],
            wasFresh |-> FALSE, stale |-> FALSE ]

\* MetadataHandler.extract_metadata
extract_metadata(file_path) ==
    IF file_path = <<>> \/ file_path \notin DOMAIN fs
    THEN /\ mdLast' = [ op |-> "extract", path |-> file_path, how |-> "missing",
                        rec |-> BasicOf[IF file_path = <<>> THEN UnknownFile ELSE file_path],
                        wasFresh |-> FALSE, stale |-> FALSE ]
         /\ UNCHANGED <<fs, MUTAGEN_AVAILABLE, mpVars, cache, fresh>>
    ELSE IF CacheHit(file_path, fs[file_path].mtime)
    THEN /\ mdLast' = [ op |-> "extract", path |-> file_path, how |-> "cache",
                        rec |-> cache[file_path],
                        wasFresh |-> file_path \in fresh, stale |-> StaleEntry(file_path) ]
         /\ fresh' = fresh \cup {file_path}
         /\ UNCHANGED <<fs, MUTAGEN_AVAILABLE, mpVars, cache>>
    ELSE /\ mdLast' = [ op |-> "extract", path |-> file_path, how |-> HowExtracted(file_path),
                        rec |-> Extracted(file_path),
                        wasFresh |-> file_path \in fresh,
                        stale |-> StaleEntry(file_path) ]
         /\ cache' = CachePut(cache, file_path, Extracted(file_path))
         /\ fresh' = fresh \cup {file_path}
         /\ UNCHANGED <<fs, MUTAGEN_AVAILABLE, mpVars>>

ExtractMetadata ==
    /\ \E p \in MetaPaths \cup {P_fixed, <<>>} : extract_metadata(p)
    /\ UNCHANGED <<plVars, libVars, pyVars>>

\* MetadataHandler.clear_cache
ClearCache ==
    /\ cache' = << >>
    /\ fresh' = {}
    /\ mdLast' = NoCall
    /\ UNCHANGED <<fs, MUTAGEN_AVAILABLE, mpVars>>
    /\ UNCHANGED <<plVars, libVars, pyVars>>

\* the environment rewrites a file: new modification time, new content
\* (P_fixed stands for the files that stay as they are)
TouchFile ==
    \E p \in DOMAIN fs \ {P_fixed}, m \in 0..MaxMtime, c \in Contents :
        /\ m # fs[p].mtime
        /\ fs' = [fs EXCEPT ![p] = FileOf(m, c)]
        /\ fresh' = fresh \ {p}
        /\ mdLast' = NoCall
        /\ UNCHANGED <<MUTAGEN_AVAILABLE, mpVars, cache>>
        /\ UNCHANGED <<plVars, libVars, pyVars>>

\* the handler after construction, over a disk with the files of `files`
MdInit(files) ==
    /\ fs = [q \in files |-> FileOf(0, NoTags)]
    /\ cache = << >>
    /\ fresh = {}
    /\ mdLast = NoCall

(***************************************************************************)
(* The playlist manager as a value                                         *)
(***************************************************************************)
\* Python's None for current_playlist
None == "<None>"

\* the tracks playlists and the library are built from
Tracks == {P_song, P_wav, P_fixed}

\* the tracks of the specifications that also have files, sessions or views
PersistTracks == {P_song, P_wav}

\* the playlist names a user types; "" is the empty input
PlNames == {"Default", "Mix"}

\* name in self.playlists
HasKey(pl, name) == \E i \in 1..Len(pl) : pl[i].name = name

KeyIndex(pl, name) == CHOOSE i \in 1..Len(pl) : pl[i].name = name

\* self.playlists[name]
DictGet(pl, name) == pl[KeyIndex(pl, name)].tracks

\* self.playlists[name] = tracks: an existing key keeps its place
DictSet(pl, name, tracks) ==
    IF HasKey(pl, name) THEN [pl EXCEPT ![KeyIndex(pl, name)].tracks = tracks]
    ELSE Append(pl, [name |-> name, tracks |-> tracks])

\* del self.playlists[name]
DictDel(pl, name) == SelectSeq(pl, LAMBDA e : e.name # name)

\* track in list
InList(t, l) == \E i \in 1..Len(l) : l[i] = t

\* del list[i] for a Python index 0 <= i < len(list)
DelAt(l, i) == SubSeq(l, 1, i) \o SubSeq(l, i + 2, Len(l))

playlistChanged(name, tracks) ==
    [sig |-> "playlistChanged", name |-> name, index |-> -1, tracks |-> tracks]

currentTrackChanged(index, path) ==
    [sig |-> "currentTrackChanged", name |-> "", index |-> index, tracks |-> <<path>>]

\* the manager as a value: the operations below map one to the next
Mgr == [pl |-> playlists, cur |-> current_playlist, idx |-> current_track_index,
        em |-> <<>>, ret |-> FALSE, track |-> <<>>]

\* PlaylistManager.get_current_track (<<>> for None)
get_current_track(m) ==
    IF m.cur \notin {None, ""} /\ HasKey(m.pl, m.cur)
       /\ 0 <= m.idx /\ m.idx < Len(DictGet(m.pl, m.cur))
    THEN DictGet(m.pl, m.cur)[m.idx + 1]
    ELSE <<>>

(***************************************************************************)
(* Player facade over the media engine, and the player controls            *)
(*                                                                         *)
(* The engine runs in its own threads; what the facade reads of it is its  *)
(* state, its media, its time and its length.  The widgets that only       *)
(* display (labels, button texts, album art, window title) and the         *)
(* metadata records fetched for them are not part of the player's state    *)
(* and are left out of the actions below.                                  *)
(***************************************************************************)
\* volume_slider.setRange(VolumeMin, VolumeMax); setValue(VolumeInitial)
VolumeMin == 0

VolumeMax == 100

VolumeInitial == 80

\* progress_slider.setRange(0, ProgressMax)
ProgressMax == 1000

\* format_time: seconds = ms // MsPerSecond
MsPerSecond == 1000

\* the values a user's move of the volume slider asks for: a drag to a
\* position of the groove, or a key or wheel step that at either end of the
\* range asks for a value beyond it
VolumeRequests == {VolumeMin - 10, VolumeMin, 50, VolumeMax, VolumeMax + 10}

\* the values a drag of the progress slider's handle gives
ProgressPositions == {0, ProgressMax \div 2, ProgressMax}

\* the next definition without the range
QSliderUnbounded(lo, hi, v) == v

\* QAbstractSlider.setValue keeps the value within the range set by setRange
QSliderBound(lo, hi, v) == IF v < lo THEN lo ELSE IF v > hi THEN hi ELSE v

\* a signal of the player with its arguments
PySig(sig, state, path, current, length) ==
    [sig |-> sig, state |-> state, path |-> path, current |-> current, length |-> length]

\* the equalizer presets AudioEffects hands to set_equalizer
Presets == {"Flat", "Rock"}

\* the engine after media_player_new(): no media, no time, no length, the
\* volume and the equalizer never set
NoEngineMedia ==
    [state |-> "NothingSpecial", media |-> <<>>, time |-> -1, length |-> -1,
     volume |-> <<>>, equalizer |-> <<>>]

\* the player as a value: the methods below map one to the next.  With it
\* go what the slots of its signals write (the play/pause button, the window
\* title) and what they read of the playlist manager (track, the value of
\* get_current_track() at the time the slot runs)
Player == [vlc |-> vlc_available, cur |-> current_media, mp |-> media_player,
           path |-> current_track_path, btn |-> play_pause_button,
           title |-> window_title, state |-> pyState,
           track |-> get_current_track(Mgr), em |-> <<>>, ret |-> FALSE]

PyOp(op, path, n) == [op |-> op, path |-> path, n |-> n]

SetPlayer(p, op) ==
    /\ current_media' = p.cur
    /\ media_player' = p.mp
    /\ current_track_path' = p.path
    /\ play_pause_button' = p.btn
    /\ window_title' = p.title
    /\ pyState' = p.state
    /\ pyEmitted' = p.em
    /\ pyRet' = p.ret
    /\ pyLast' = op
    /\ UNCHANGED vlc_available

\* MainWindow._on_player_state_changed, the slot of stateChanged
_on_player_state_changed(p, state) ==
    [p EXCEPT !.btn = (state = "playing"),
              !.title = IF state \in {"playing", "paused"}
                        THEN IF p.track # <<>> THEN p.track ELSE @
                        ELSE <<>>,
              !.state = state]

\* stateChanged.emit(state): the signal and its slot
EmitStateChanged(p, state) ==
    _on_player_state_changed(
        [p EXCEPT !.em = Append(@, PySig("stateChanged", state, <<>>, -1, -1))], state)

\* Player.load_media: set_media releases what the engine was playing
load_media(p, file_path) ==
    IF ~p.vlc \/ file_path = <<>> THEN [p EXCEPT !.ret = FALSE]
    ELSE [p EXCEPT !.mp = [@ EXCEPT !.state = "NothingSpecial", !.media = file_path,
                                    !.time = -1, !.length = -1],
                   !.cur = file_path,
                   !.em = Append(@, PySig("mediaChanged", "", file_path, -1, -1)),
                   !.ret = TRUE]

\* Player.play: media_player.play() gives -1 without media, resumes a
\* paused engine, leaves a playing one and otherwise starts to open the media
play(p) ==
    IF ~p.vlc \/ p.mp.media = <<>> THEN [p EXCEPT !.ret = FALSE]
    ELSE EmitStateChanged(
            [p EXCEPT !.mp = IF @.state = "Paused" THEN [@ EXCEPT !.state = "Playing"]
                             ELSE IF @.state \in {"Opening", "Playing"} THEN @
                             ELSE [@ EXCEPT !.state = "Opening", !.time = -1, !.length = 0],
                      !.ret = TRUE],
            "playing")

\* Player.pause: media_player.pause() toggles between playing and paused
pause(p) ==
    IF ~p.vlc THEN [p EXCEPT !.ret = FALSE]
    ELSE EmitStateChanged(
            [p EXCEPT !.mp = IF @.state = "Playing" THEN [@ EXCEPT !.state = "Paused"]
                             ELSE IF @.state = "Paused" THEN [@ EXCEPT !.state = "Playing"]
                             ELSE @,
                      !.ret = TRUE],
            "paused")

\* the next definition without the test of vlc_available
stop_unguarded(p) ==
    EmitStateChanged(
        [p EXCEPT !.mp = IF @.media = <<>> THEN @
                         ELSE [@ EXCEPT !.state = "Stopped", !.time = -1],
                  !.ret = TRUE],
        "stopped")

\* Player.stop: media_player.stop() stops an engine that has a media
stop(p) ==
    IF ~p.vlc THEN [p EXCEPT !.ret = FALSE]
    ELSE EmitStateChanged(
            [p EXCEPT !.mp = IF @.media = <<>> THEN @
                             ELSE [@ EXCEPT !.state = "Stopped", !.time = -1],
                      !.ret = TRUE],
            "stopped")

\* Player.is_playing
is_playing(p) == p.vlc /\ p.mp.state = "Playing"

\* Player.get_state
get_state(p) ==
    IF ~p.vlc THEN "unavailable"
    ELSE CASE p.mp.state = "Playing" -> "playing"
           [] p.mp.state = "Paused" -> "paused"
           [] p.mp.state = "Ended" -> "ended"
           [] p.mp.state = "Error" -> "error"
           [] OTHER -> "stopped"

\* Player.set_position for the position value / ProgressMax of the progress
\* slider: the engine seeks while it plays or is paused
set_position(p, value) ==
    IF p.vlc /\ p.mp.state \in {"Playing", "Paused"}
    THEN [p EXCEPT !.mp = [@ EXCEPT !.time = (value * p.mp.length) \div ProgressMax],
                   !.ret = TRUE]
    ELSE [p EXCEPT !.ret = FALSE]

\* Player.set_volume: the value goes to audio_set_volume as it comes
set_volume(p, volume) ==
    IF ~p.vlc THEN [p EXCEPT !.ret = FALSE]
    ELSE [p EXCEPT !.mp = [@ EXCEPT !.volume = <<volume>>], !.ret = TRUE]

\* Player.set_equalizer
set_equalizer(p, equalizer) ==
    IF p.vlc
    THEN [p EXCEPT !.mp = [@ EXCEPT !.equalizer = <<equalizer>>], !.ret = TRUE]
    ELSE [p EXCEPT !.ret = FALSE]

\* the next definition without the tests of length and time
_update_position_unguarded(p) ==
    IF is_playing(p)
    THEN [p EXCEPT !.em = Append(@, PySig("positionChanged", "", <<>>, p.mp.time, p.mp.length))]
    ELSE p

\* Player._update_position, the slot of the 100 ms timer
_update_position(p) ==
    IF is_playing(p) /\ p.mp.length > 0 /\ p.mp.time >= 0
    THEN [p EXCEPT !.em = Append(@, PySig("positionChanged", "", <<>>, p.mp.time, p.mp.length))]
    ELSE p

\* MainWindow._play_track
_play_track(p, file_path) ==
    IF file_path = <<>> \/ file_path \notin DOMAIN fs THEN p
    ELSE [(IF load_media(p, file_path).ret THEN play(load_media(p, file_path))
           ELSE load_media(p, file_path)) EXCEPT !.path = file_path]

\* the slots of the playlist manager's signals emitted during one call:
\* MainWindow._on_current_track_changed plays the track announced, which is
\* the manager's current track while the slot runs
RECURSIVE OnSignals(_, _)
OnSignals(p, em) ==
    IF em = <<>> THEN p
    ELSE OnSignals(IF Head(em).sig = "currentTrackChanged"
                      /\ Head(em).tracks[1] # <<>> /\ Head(em).tracks[1] \in DOMAIN fs
                   THEN _play_track([p EXCEPT !.track = Head(em).tracks[1]],
                                    Head(em).tracks[1])
                   ELSE p,
                   Tail(em))

\* PlayerControls.format_time: the text m:ss as <<m, ss>>
format_time(ms) ==
    IF ms <= 0 THEN <<0, 0>>
    ELSE <<(ms \div MsPerSecond) \div 60, (ms \div MsPerSecond) % 60>>

\* Player.__init__, PlayerControls.__init__ and MainWindow.__init__
PyInit ==
    /\ current_media = <<>>
    /\ media_player = NoEngineMedia
    /\ current_track_path = <<>>
    /\ volume_slider = VolumeInitial
    /\ progress_slider = 0
    /\ is_slider_pressed = FALSE
    /\ current_time_label = format_time(0)
    /\ total_time_label = format_time(0)
    /\ play_pause_button = FALSE
    /\ window_title = <<>>
    /\ pyEmitted = <<>>
    /\ pyRet = FALSE
    /\ pyState = ""
    /\ pyLast = PyOp("init", <<>>, -1)

(***************************************************************************)
(* Playlist manager                                                        *)
(***************************************************************************)
SetMgrVars(m) ==
    /\ playlists' = m.pl
    /\ current_playlist' = m.cur
    /\ current_track_index' = m.idx
    /\ plEmitted' = m.em
    /\ plRet' = m.ret
    /\ plTrack' = m.track

\* the manager after a call, and the player after the slots of the signals
\* the call emitted
SetMgr(m) ==
    /\ SetMgrVars(m)
    /\ SetPlayer(OnSignals(Player, m.em), PyOp("playlist_signals", <<>>, -1))

\* the next definition without the test for an existing name
create_playlist_overwrite(m, name) ==
    IF name # ""
    THEN [m EXCEPT !.pl = DictSet(m.pl, name, <<>>),
                   !.em = Append(m.em, playlistChanged(name, <<>>)),
                   !.ret = TRUE]
    ELSE [m EXCEPT !.ret = FALSE]

\* PlaylistManager.create_playlist
create_playlist(m, name) ==
    IF name # "" /\ ~HasKey(m.pl, name)
    THEN [m EXCEPT !.pl = DictSet(m.pl, name, <<>>),
                   !.em = Append(m.em, playlistChanged(name, <<>>)),
                   !.ret = TRUE]
    ELSE [m EXCEPT !.ret = FALSE]

\* PlaylistManager.add_to_playlist
add_to_playlist(m, name, track) ==
    IF HasKey(m.pl, name) /\ ~InList(track, DictGet(m.pl, name))
    THEN [m EXCEPT !.pl = DictSet(m.pl, name, Append(DictGet(m.pl, name), track)),
                   !.em = Append(m.em, playlistChanged(name, Append(DictGet(m.pl, name), track))),
                   !.ret = TRUE]
    ELSE [m EXCEPT !.ret = FALSE]

\* the loop of add_files_to_playlist: append each path not yet in the list
RECURSIVE AppendNew(_, _)
AppendNew(l, paths) ==
    IF paths = <<>> THEN l
    ELSE AppendNew(IF InList(Head(paths), l) THEN l ELSE Append(l, Head(paths)), Tail(paths))

\* PlaylistManager.add_files_to_playlist
add_files_to_playlist(m, name, paths) ==
    IF HasKey(m.pl, name)
    THEN LET added == AppendNew(DictGet(m.pl, name), paths)
         IN IF added # DictGet(m.pl, name)
            THEN [m EXCEPT !.pl = DictSet(m.pl, name, added),
                           !.em = Append(m.em, playlistChanged(name, added)),
                           !.ret = TRUE]
            ELSE [m EXCEPT !.ret = FALSE]
    ELSE [m EXCEPT !.ret = FALSE]

\* del list[i] of Python, where a negative index counts from the end
DelAtPy(l, i) == IF i < 0 THEN DelAt(l, Len(l) + i) ELSE DelAt(l, i)

\* the next definition without the lower bound on the index
remove_from_playlist_negative(m, name, track_index) ==
    IF HasKey(m.pl, name) /\ track_index < Len(DictGet(m.pl, name))
          /\ -Len(DictGet(m.pl, name)) <= track_index
    THEN [m EXCEPT !.pl = DictSet(m.pl, name, DelAtPy(DictGet(m.pl, name), track_index)),
                   !.em = Append(m.em, playlistChanged(name,
                                           DelAtPy(DictGet(m.pl, name), track_index))),
                   !.ret = TRUE]
    ELSE [m EXCEPT !.ret = FALSE]

\* PlaylistManager.remove_from_playlist
remove_from_playlist(m, name, track_index) ==
    IF HasKey(m.pl, name) /\ 0 <= track_index /\ track_index < Len(DictGet(m.pl, name))
    THEN [m EXCEPT !.pl = DictSet(m.pl, name, DelAt(DictGet(m.pl, name), track_index)),
                   !.em = Append(m.em, playlistChanged(name,
                                           DelAt(DictGet(m.pl, name), track_index))),
                   !.ret = TRUE]
    ELSE [m EXCEPT !.ret = FALSE]

\* PlaylistManager.set_current_playlist
set_current_playlist(m, name) ==
    IF HasKey(m.pl, name)
    THEN [m EXCEPT !.cur = name,
                   !.idx = IF DictGet(m.pl, name) # <<>> THEN 0 ELSE -1,
                   !.em = IF DictGet(m.pl, name) # <<>>
                          THEN Append(m.em, currentTrackChanged(0, DictGet(m.pl, name)[1]))
                          ELSE m.em,
                   !.ret = TRUE]
    ELSE [m EXCEPT !.ret = FALSE]

\* self.playlists[self.current_playlist] is there and not empty
HasCurrentTracks(m) ==
    m.cur \notin {None, ""} /\ HasKey(m.pl, m.cur) /\ DictGet(m.pl, m.cur) # <<>>

\* the end of next_track and previous_track for the new index
MoveTo(m, index) ==
    [m EXCEPT !.idx = index,
              !.em = Append(@, currentTrackChanged(index, DictGet(m.pl, m.cur)[index + 1])),
              !.track = DictGet(m.pl, m.cur)[index + 1]]

\* PlaylistManager.next_track; Python's % takes the sign of the divisor
next_track(m) ==
    IF ~HasCurrentTracks(m) THEN [m EXCEPT !.track = <<>>]
    ELSE MoveTo(m, (m.idx + 1) % Len(DictGet(m.pl, m.cur)))

\* the next definition going forward
previous_track_forward(m) == next_track(m)

\* PlaylistManager.previous_track
previous_track(m) ==
    IF ~HasCurrentTracks(m) THEN [m EXCEPT !.track = <<>>]
    ELSE MoveTo(m, (m.idx - 1) % Len(DictGet(m.pl, m.cur)))

(***************************************************************************)
(* Playlist persistence (playlists.json)                                   *)
(***************************************************************************)
\* json.dump of the dict: an object, its members in insertion order
JsonDump(pl) == [i \in 1..Len(pl) |-> <<pl[i].name, pl[i].tracks>>]

\* json.load of an object: a dict built member by member
RECURSIVE JsonLoad(_, _)
JsonLoad(obj, acc) ==
    IF obj = <<>> THEN acc
    ELSE JsonLoad(Tail(obj), DictSet(acc, Head(obj)[1], Head(obj)[2]))

NoFile == [exists |-> FALSE, bad |-> FALSE, shape |-> "object", obj |-> <<>>]

\* a playlists.json that holds the JSON text [] (an array, not an object)
ArrayFile == [exists |-> TRUE, bad |-> FALSE, shape |-> "array", obj |-> <<>>]

\* the next definition with the test for existence inverted
ValidTracksInverted(tracks) == SelectSeq(tracks, LAMBDA t : t \notin DOMAIN fs)

\* [track for track in tracks if os.path.exists(track)]
ValidTracks(tracks) == SelectSeq(tracks, LAMBDA t : t \in DOMAIN fs)

\* the next definition keeping the playlists left without a valid track
ValidateLoadedKeepEmpty(m, items) ==
    [m EXCEPT !.pl = [i \in 1..Len(items) |->
                         [name |-> items[i].name, tracks |-> ValidTracks(items[i].tracks)]],
              !.em = [i \in 1..Len(items) |->
                         playlistChanged(items[i].name, ValidTracks(items[i].tracks))]]

\* the validation loop of load_playlists over list(self.playlists.items())
RECURSIVE ValidateLoaded(_, _)
ValidateLoaded(m, items) ==
    IF items = <<>> THEN m
    ELSE ValidateLoaded(
            IF ValidTracks(Head(items).tracks) # <<>>
            THEN [m EXCEPT !.pl = DictSet(m.pl, Head(items).name, ValidTracks(Head(items).tracks)),
                           !.em = Append(m.em, playlistChanged(Head(items).name,
                                                   ValidTracks(Head(items).tracks)))]
            ELSE [m EXCEPT !.pl = DictDel(m.pl, Head(items).name)],
            Tail(items))

\* PlaylistManager.load_playlists: json.load raises on a text that is not
\* JSON before self.playlists is assigned; what it returns is assigned
\* whatever it is, and a list has no items(), which raises after that
load_playlists(m) ==
    IF plFile.exists /\ ~plFile.bad
    THEN IF plFile.shape = "array"
         THEN [m EXCEPT !.pl = <<>>, !.ret = FALSE]
         ELSE [ValidateLoaded([m EXCEPT !.pl = JsonLoad(plFile.obj, <<>>)],
                              JsonLoad(plFile.obj, <<>>)) EXCEPT !.ret = TRUE]
    ELSE [m EXCEPT !.ret = FALSE]

\* PlaylistManager.save_playlists: the file after the call, by how the write
\* went ("ok", "open_failed": the file is left alone, "write_failed": the
\* file was truncated and holds no complete JSON text)
SavedFile(pl, io) ==
    CASE io = "ok" -> [exists |-> TRUE, bad |-> FALSE, shape |-> "object",
                       obj |-> JsonDump(pl)]
      [] io = "open_failed" -> plFile
      [] io = "write_failed" -> [exists |-> TRUE, bad |-> TRUE, shape |-> "object",
                                 obj |-> <<>>]

IoOutcomes == {"ok", "open_failed", "write_failed"}

(***************************************************************************)
(* Playlist view: the playlist selector (a combo box)                      *)
(***************************************************************************)
\* self.playlists.keys()
Keys(pl) == [i \in 1..Len(pl) |-> pl[i].name]

\* PlaylistView.on_playlist_selected (the slot of currentTextChanged)
on_playlist_selected(m, name) ==
    IF name # "" /\ HasKey(m.pl, name) THEN set_current_playlist(m, name) ELSE m

\* PlaylistView.update_playlist_selector: clear() empties the box, the first
\* addItem makes its item current (currentTextChanged), then the previous
\* selection is restored or the first item announced again
update_playlist_selector(m, current) ==
    IF Keys(m.pl) = <<>> THEN [m |-> m, items |-> <<>>, cur |-> ""]
    ELSE IF InList(current, Keys(m.pl))
    THEN [m |-> IF current # Keys(m.pl)[1]
                THEN on_playlist_selected(on_playlist_selected(m, Keys(m.pl)[1]), current)
                ELSE on_playlist_selected(m, Keys(m.pl)[1]),
          items |-> Keys(m.pl), cur |-> current]
    ELSE [m |-> on_playlist_selected(on_playlist_selected(m, Keys(m.pl)[1]), Keys(m.pl)[1]),
          items |-> Keys(m.pl), cur |-> Keys(m.pl)[1]]

\* the selector after setCurrentIndex(findText(name)) for a name it holds
SelectName(u, name) ==
    [m |-> IF u.cur # name THEN on_playlist_selected(u.m, name) ELSE u.m,
     items |-> u.items, cur |-> name]

(***************************************************************************)
(* Library manager                                                         *)
(***************************************************************************)
\* the music folder the model scans, and a folder that does not exist
MusicDir == <<"m">>

NoDir == <<"n", "o">>

\* LibraryManager.supported_extensions
supported_extensions ==
    << <<".", "m", "p", "3">>, <<".", "f", "l", "a", "c">>, <<".", "w", "a", "v">>,
       <<".", "o", "g", "g">>, <<".", "m", "4", "a">> >>

\* the files of the music folder: three the scanner accepts and one it skips
\* for its extension
LibPaths == {P_song, P_wav, P_upper, P_fixed}

\* the files the user picks in the Open File dialog (one that a scan finds too)
OpenPaths == {P_song}

\* the order in which os.walk lists the files of the music folder
WalkOrder == <<P_wav, P_upper, P_song, P_fixed>>

\* file.lower().endswith(ext) for one of the supported extensions
Scannable ==
    {p \in LibPaths :
        \E i \in 1..Len(supported_extensions) :
            LET f == lower(basename(p))
                e == supported_extensions[i]
            IN Len(f) >= Len(e) /\ SubSeq(f, Len(f) - Len(e) + 1, Len(f)) = e}

\* ScannerWorker.run to its end without abort: the files found under directory
Walk(directory) ==
    SelectSeq(WalkOrder,
              LAMBDA p : /\ p \in DOMAIN fs
                         /\ p \in Scannable
                         /\ SubSeq(p, 1, Len(directory) + 1) = directory \o <<"/">>)

\* the next definition without the test against the library
NewFilesUnfiltered(files, lib) == files

\* line 93: [f for f in files if f not in self.library]
NewFiles(files, lib) == SelectSeq(files, LAMBDA f : ~InList(f, lib))

\* the next definition keeping every path
ExistingFilesAll(lib) == lib

\* line 113: [f for f in self.library if os.path.exists(f)]
ExistingFiles(lib) == SelectSeq(lib, LAMBDA f : f \in DOMAIN fs)

\* MainWindow._open_file, lines 324-326: append each file not yet in the library
RECURSIVE AppendToLibrary(_, _)
AppendToLibrary(lib, file_paths) ==
    IF file_paths = <<>> THEN lib
    ELSE AppendToLibrary(IF InList(Head(file_paths), lib) THEN lib
                         ELSE Append(lib, Head(file_paths)),
                         Tail(file_paths))

\* a signal of the library manager; n is the argument of scanFinished
LibSig(sig, n) == [sig |-> sig, n |-> n]

\* history: the operation last run and, for a finished signal handled, the
\* place its worker had among those under way
LibOp(op) == [op |-> op, at |-> 0]

\* music_library.json before it is first written
NoLibFile == [exists |-> FALSE, bad |-> FALSE, list |-> <<>>]

\* LibraryManager.__init__
LibInit ==
    /\ library = <<>>
    /\ scanners = <<>>
    /\ scanQueue = <<>>
    /\ current_scanner = 0
    /\ libFile = NoLibFile
    /\ libEmitted = <<>>
    /\ libRet = 0
    /\ libLast = LibOp("init")

(***************************************************************************)
(* Playlist actions                                                        *)
(***************************************************************************)
PlOp(op, name, index, paths) == [op |-> op, name |-> name, index |-> index, paths |-> paths]

PlInit ==
    /\ playlists = <<>>
    /\ current_playlist = None
    /\ current_track_index = -1
    /\ plEmitted = <<>>
    /\ plRet = FALSE
    /\ plTrack = <<>>
    /\ plLast = PlOp("init", "", -1, <<>>)
    /\ plFile = NoFile
    /\ plSaved = <<>>
    /\ selItems = <<>>
    /\ selCur = ""

\* sequences over S of length at most n
SeqsUpTo(S, n) == UNION {[1..k -> S] : k \in 0..n}

CreatePlaylist ==
    \E name \in PlNames \cup {""} :
        /\ SetMgr(create_playlist(Mgr, name))
        /\ plLast' = PlOp("create_playlist", name, -1, <<>>)
        /\ UNCHANGED <<plFile, plSaved, selItems, selCur, mdVars, mpVars, libVars, sliderVars, labelVars>>

AddToPlaylist(T) ==
    \E name \in PlNames, t \in T :
        /\ SetMgr(add_to_playlist(Mgr, name, t))
        /\ plLast' = PlOp("add_to_playlist", name, -1, <<t>>)
        /\ UNCHANGED <<plFile, plSaved, selItems, selCur, mdVars, mpVars, libVars, sliderVars, labelVars>>

\* PlaylistManager.add_files_to_playlist for the lists (repeated paths
\* included) a caller builds from two of the tracks
AddFilesToPlaylist ==
    \E name \in PlNames, paths \in SeqsUpTo(PersistTracks, MaxPaths) :
        /\ SetMgr(add_files_to_playlist(Mgr, name, paths))
        /\ plLast' = PlOp("add_files_to_playlist", name, -1, paths)
        /\ UNCHANGED <<plFile, plSaved, selItems, selCur, mdVars, mpVars, libVars, sliderVars, labelVars>>

RemoveFromPlaylist ==
    \E name \in PlNames, i \in -1..Cardinality(Tracks) :
        /\ SetMgr(remove_from_playlist(Mgr, name, i))
        /\ plLast' = PlOp("remove_from_playlist", name, i, <<>>)
        /\ UNCHANGED <<plFile, plSaved, selItems, selCur, mdVars, mpVars, libVars, sliderVars, labelVars>>

SetCurrentPlaylist ==
    \E name \in PlNames :
        /\ SetMgr(set_current_playlist(Mgr, name))
        /\ plLast' = PlOp("set_current_playlist", name, -1, <<>>)
        /\ UNCHANGED <<plFile, plSaved, selItems, selCur, mdVars, mpVars, libVars, sliderVars, labelVars>>

\* MainWindow._play_next and _play_previous after the manager's call gave m:
\* the slot of currentTrackChanged has played the track, and the track
\* returned is played once more
Played(m) ==
    LET p == OnSignals(Player, m.em)
    IN IF m.track # <<>> THEN _play_track([p EXCEPT !.track = get_current_track(m)], m.track)
       ELSE p

\* MainWindow._play_next (Next of the controls and of the Playback menu);
\* plLast keeps the index the call found
PlayNext ==
    /\ SetMgrVars(next_track(Mgr))
    /\ SetPlayer(Played(next_track(Mgr)), PyOp("play_next", <<>>, -1))
    /\ plLast' = PlOp("next_track", "", current_track_index, <<>>)
    /\ UNCHANGED <<plFile, plSaved, selItems, selCur, mdVars, mpVars, libVars, sliderVars, labelVars>>

\* MainWindow._play_previous
PlayPrevious ==
    /\ SetMgrVars(previous_track(Mgr))
    /\ SetPlayer(Played(previous_track(Mgr)), PyOp("play_previous", <<>>, -1))
    /\ plLast' = PlOp("previous_track", "", current_track_index, <<>>)
    /\ UNCHANGED <<plFile, plSaved, selItems, selCur, mdVars, mpVars, libVars, sliderVars, labelVars>>

\* the signals class Player declares
PlayerSignals == {"positionChanged", "stateChanged", "mediaChanged"}

\* hasattr(self.player, name), for the name of a signal
hasattr_player(name) == name \in PlayerSignals

\* FullscreenPlayer.next_track and previous_track: the signal of that name
\* is emitted on the player if the player has it
fullscreen_request(p, name) ==
    [p EXCEPT !.em = IF hasattr_player(name) THEN <<PySig(name, "", <<>>, -1, -1)>>
                     ELSE <<>>]

\* FullscreenPlayer.next_track (the Next button of the full-screen player,
\* the Right key); MainWindow connects no slot to a signal of the player by
\* that name, and nothing else is done
FullscreenNextTrack ==
    /\ SetMgrVars([Mgr EXCEPT !.em = <<>>, !.track = <<>>])
    /\ SetPlayer(fullscreen_request(Player, "nextRequested"),
                 PyOp("fullscreen_next_track", <<>>, -1))
    /\ plLast' = PlOp("fullscreen_next_track", "", current_track_index, <<>>)
    /\ UNCHANGED <<plFile, plSaved, selItems, selCur, mdVars, mpVars, libVars, sliderVars, labelVars>>

\* FullscreenPlayer.previous_track (the Previous button, the Left key)
FullscreenPreviousTrack ==
    /\ SetMgrVars([Mgr EXCEPT !.em = <<>>, !.track = <<>>])
    /\ SetPlayer(fullscreen_request(Player, "previousRequested"),
                 PyOp("fullscreen_previous_track", <<>>, -1))
    /\ plLast' = PlOp("fullscreen_previous_track", "", current_track_index, <<>>)
    /\ UNCHANGED <<plFile, plSaved, selItems, selCur, mdVars, mpVars, libVars, sliderVars, labelVars>>

\* PlaylistView.tracks_list: its rows are the tracks of the playlist the
\* selector shows (on_playlist_selected and on_playlist_changed fill it)
tracks_list ==
    IF selCur # "" /\ HasKey(playlists, selCur) THEN DictGet(playlists, selCur) ELSE <<>>

\* PlaylistView.add_to_current_playlist up to the call that adds: with no
\* playlist selected, "Default" is created and the selector filled
CurrentOrDefault ==
    IF selCur # "" THEN [m |-> Mgr, items |-> selItems, cur |-> selCur]
    ELSE [update_playlist_selector(create_playlist(Mgr, "Default"), selCur)
             EXCEPT !.cur = "Default"]

\* LibraryView.addToPlaylist for a row of the library table:
\* PlaylistView.add_to_current_playlist
AddToCurrentPlaylist ==
    \E file_path \in Tracks :
        /\ SetMgr(add_files_to_playlist(CurrentOrDefault.m, CurrentOrDefault.cur,
                                        <<file_path>>))
        /\ selItems' = CurrentOrDefault.items
        /\ selCur' = IF selCur # "" THEN selCur ELSE CurrentOrDefault.items[1]
        /\ plLast' = PlOp("add_to_current_playlist", "", -1, <<file_path>>)
        /\ UNCHANGED <<plFile, plSaved, mdVars, mpVars, libVars, sliderVars, labelVars>>

\* PlaylistView.remove_selected for the one row selected
RemoveSelected ==
    \E index \in 0..(Len(tracks_list) - 1) :
        /\ SetMgr(remove_from_playlist(Mgr, selCur, index))
        /\ plLast' = PlOp("remove_selected", selCur, index, <<>>)
        /\ UNCHANGED <<plFile, plSaved, selItems, selCur, mdVars, mpVars, libVars, sliderVars, labelVars>>

\* PlaylistView.play_selected for the one row selected: the view sets the
\* manager's index itself and has the track played
PlaySelected ==
    \E index \in 0..(Len(tracks_list) - 1) :
        /\ SetMgrVars([Mgr EXCEPT !.idx = index])
        /\ SetPlayer(_play_track([Player EXCEPT !.track = get_current_track(
                                                     [Mgr EXCEPT !.idx = index])],
                                  tracks_list[index + 1]),
                     PyOp("play_selected", tracks_list[index + 1], -1))
        /\ plLast' = PlOp("play_selected", selCur, index, <<>>)
        /\ UNCHANGED <<plFile, plSaved, selItems, selCur, mdVars, mpVars, libVars, sliderVars, labelVars>>

\* PlaylistView.create_new_playlist: the dialog gives (name, ok)
CreateNewPlaylist ==
    \E name \in PlNames \cup {""}, ok \in BOOLEAN :
        /\ plLast' = PlOp("create_new_playlist", name, -1, <<>>)
        /\ IF ok /\ name # "" /\ ~HasKey(playlists, name)
           THEN /\ SetMgr(SelectName(update_playlist_selector(create_playlist(Mgr, name),
                                                               selCur), name).m)
                /\ selItems' = Keys(create_playlist(Mgr, name).pl)
                /\ selCur' = name
           ELSE /\ plEmitted' = <<>>
                /\ SetPlayer(Player, PyOp("playlist_signals", <<>>, -1))
                /\ UNCHANGED <<playlists, current_playlist, current_track_index, plRet,
                               plTrack, selItems, selCur>>
        /\ UNCHANGED <<plFile, plSaved, mdVars, mpVars, libVars, sliderVars, labelVars>>

SavePlaylists ==
    \E io \in IoOutcomes :
        /\ plFile' = SavedFile(playlists, io)
        /\ plSaved' = CASE io = "ok" -> playlists
                         [] io = "open_failed" -> plSaved
                         [] io = "write_failed" -> <<>>
        /\ plRet' = (io = "ok")
        /\ plTrack' = <<>>
        /\ plEmitted' = <<>>
        /\ plLast' = PlOp("save_playlists", "", -1, <<>>)
        /\ UNCHANGED <<playlists, current_playlist, current_track_index, selItems, selCur,
                       mdVars, mpVars, libVars, pyVars>>

LoadPlaylists ==
    /\ SetMgr(load_playlists(Mgr))
    /\ plLast' = PlOp("load_playlists", "", -1, <<>>)
    /\ UNCHANGED <<plFile, plSaved, selItems, selCur, mdVars, mpVars, libVars, sliderVars, labelVars>>

\* the environment puts a JSON file of another shape in the place of
\* playlists.json
ForeignFile ==
    /\ plFile # ArrayFile
    /\ plFile' = ArrayFile
    /\ plSaved' = <<>>
    /\ plEmitted' = <<>>
    /\ plLast' = PlOp("foreign_file", "", -1, <<>>)
    /\ UNCHANGED <<playlists, current_playlist, current_track_index, plRet, plTrack,
                   selItems, selCur, mdVars, mpVars, libVars, pyVars>>

\* MainWindow.__init__ without _load_settings: a new session starts with no
\* playlists, an empty library and an idle player; the files on disk stay
NewSession ==
    /\ playlists' = <<>>
    /\ current_playlist' = None
    /\ current_track_index' = -1
    /\ plEmitted' = <<>>
    /\ plRet' = FALSE
    /\ plTrack' = <<>>
    /\ plLast' = PlOp("init", "", -1, <<>>)
    /\ selItems' = <<>>
    /\ selCur' = ""
    /\ library' = <<>>
    /\ scanners' = <<>>
    /\ scanQueue' = <<>>
    /\ current_scanner' = 0
    /\ libEmitted' = <<>>
    /\ libRet' = 0
    /\ libLast' = LibOp("init")
    /\ current_media' = <<>>
    /\ media_player' = NoEngineMedia
    /\ current_track_path' = <<>>
    /\ volume_slider' = VolumeInitial
    /\ progress_slider' = 0
    /\ is_slider_pressed' = FALSE
    /\ current_time_label' = format_time(0)
    /\ total_time_label' = format_time(0)
    /\ play_pause_button' = FALSE
    /\ window_title' = <<>>
    /\ pyEmitted' = <<>>
    /\ pyRet' = FALSE
    /\ pyState' = ""
    /\ pyLast' = PyOp("init", <<>>, -1)
    /\ UNCHANGED <<plFile, plSaved, libFile, vlc_available, mdVars, mpVars>>

\* the environment deletes an audio file
DeleteFile(T) ==
    \E t \in T \cap DOMAIN fs :
        /\ fs' = [q \in DOMAIN fs \ {t} |-> fs[q]]
        /\ fresh' = fresh \ {t}
        /\ mdLast' = NoCall
        /\ plLast' = PlOp("file_deleted", "", -1, <<t>>)
        /\ libLast' = LibOp("file_deleted")
        /\ UNCHANGED <<MUTAGEN_AVAILABLE, mpVars, cache>>
        /\ UNCHANGED <<playlists, current_playlist, current_track_index, plEmitted, plRet,
                       plTrack, plFile, plSaved, selItems, selCur>>
        /\ UNCHANGED <<library, scanners, scanQueue, current_scanner, libFile, libEmitted,
                       libRet, pyVars>>

(***************************************************************************)
(* Library actions                                                         *)
(***************************************************************************)
\* the prefixes of a sequence: what a walk that is told to stop has found
Prefixes(s) == {SubSeq(s, 1, k) : k \in 0..Len(s)}

\* LibraryManager.scan_directory (LibraryView.scan_music_folder)
ScanDirectory ==
    \E directory_path \in {MusicDir, NoDir} :
        /\ Len(scanners) < MaxScans
        /\ libLast' = LibOp("scan_directory")
        /\ IF directory_path # MusicDir
           THEN /\ libRet' = 0
                /\ libEmitted' = <<>>
                /\ UNCHANGED <<scanners, current_scanner>>
           ELSE /\ libRet' = 1
                /\ libEmitted' = <<LibSig("scanStarted", -1)>>
                /\ scanners' = Append(scanners, [directory |-> directory_path,
                                                 abort |-> FALSE,
                                                 status |-> "running",
                                                 files |-> <<>>])
                /\ current_scanner' = Len(scanners) + 1
        /\ UNCHANGED <<library, scanQueue, libFile, mdVars, mpVars, plVars, pyVars>>

\* LibraryManager.cancel_scan
CancelScan ==
    /\ libLast' = LibOp("cancel_scan")
    /\ libEmitted' = <<>>
    /\ scanners' = IF current_scanner # 0
                   THEN [scanners EXCEPT ![current_scanner].abort = TRUE]
                   ELSE scanners
    /\ UNCHANGED <<library, scanQueue, current_scanner, libFile, libRet,
                   mdVars, mpVars, plVars, pyVars>>

\* ScannerWorker.run of the worker at place i of scanners, in its pool
\* thread: the walk ends with the files found (some first of them when abort
\* was set on the way) and finished is posted to the main thread
Run(i) ==
    /\ scanners[i].status = "running"
    /\ \E files \in IF scanners[i].abort THEN Prefixes(Walk(scanners[i].directory))
                    ELSE {Walk(scanners[i].directory)} :
          scanners' = [scanners EXCEPT ![i].status = "finished", ![i].files = files]
    /\ scanQueue' = Append(scanQueue, i)
    /\ libLast' = LibOp("scanner_run")
    /\ libEmitted' = <<>>
    /\ UNCHANGED <<library, current_scanner, libFile, libRet, mdVars, mpVars, plVars, pyVars>>

\* a run whose except branch were to print the error and post nothing
RaiseSilently(i) ==
    /\ scanners[i].status = "running"
    /\ scanners' = [scanners EXCEPT ![i].status = "finished", ![i].files = <<>>]
    /\ libLast' = LibOp("scanner_raised")
    /\ libEmitted' = <<>>
    /\ UNCHANGED <<library, scanQueue, current_scanner, libFile, libRet, mdVars, mpVars, plVars,
                   pyVars>>

\* ScannerWorker.run when the walk raises: the except branch posts
\* finished with an empty list
Raise(i) ==
    /\ scanners[i].status = "running"
    /\ scanners' = [scanners EXCEPT ![i].status = "finished", ![i].files = <<>>]
    /\ scanQueue' = Append(scanQueue, i)
    /\ libLast' = LibOp("scanner_raised")
    /\ libEmitted' = <<>>
    /\ UNCHANGED <<library, current_scanner, libFile, libRet, mdVars, mpVars, plVars, pyVars>>

ScannerRun == \E i \in 1..Len(scanners) : Run(i)

ScannerRaises == \E i \in 1..Len(scanners) : Raise(i)

\* the pool thread of the worker at place i runs it to its end
Worker(i) == i \in 1..Len(scanners) /\ (Run(i) \/ Raise(i))

\* LibraryManager._on_scan_finished, run in the main thread for the posted
\* signals in their order; the worker handled is gone from scanners
OnScanFinished ==
    /\ scanQueue # <<>>
    /\ LET files == scanners[Head(scanQueue)].files
           new_files == NewFiles(files, library)
       IN /\ library' = library \o new_files
          /\ libEmitted' = (IF new_files # <<>> THEN <<LibSig("libraryUpdated", -1)>>
                            ELSE <<>>)
                           \o <<LibSig("scanFinished", Len(new_files))>>
          /\ libLast' = [LibOp("_on_scan_finished") EXCEPT !.at = Head(scanQueue)]
    /\ scanners' = DelAt(scanners, Head(scanQueue) - 1)
    /\ scanQueue' = [k \in 1..Len(scanQueue) - 1 |->
                        IF scanQueue[k + 1] > Head(scanQueue) THEN scanQueue[k + 1] - 1
                        ELSE scanQueue[k + 1]]
    /\ current_scanner' = 0
    /\ UNCHANGED <<libFile, libRet, mdVars, mpVars, plVars, pyVars>>

\* the selections the Open File dialog can give: no file (cancelled) or
\* existing files, each once
Selections ==
    {s \in SeqsUpTo(OpenPaths \cap DOMAIN fs, MaxPaths) :
        \A i, j \in 1..Len(s) : s[i] = s[j] => i = j}

\* the playlist manager after lines 310-318 of MainWindow._open_file
OpenedInto(m, file_paths) ==
    LET m1 == IF m.pl = <<>>
              THEN set_current_playlist(create_playlist(m, "Default"), "Default")
              ELSE m
    IN IF m1.cur # None /\ m1.cur # ""
       THEN add_files_to_playlist(m1, m1.cur, file_paths)
       ELSE m1

\* MainWindow._open_file
OpenFile ==
    \E file_paths \in Selections :
        /\ libLast' = LibOp("open_file")
        /\ plLast' = PlOp("open_file", "", -1, <<>>)
        /\ IF file_paths = <<>>
           THEN /\ libEmitted' = <<>>
                /\ plEmitted' = <<>>
                /\ SetPlayer(Player, PyOp("open_file", <<>>, -1))
                /\ UNCHANGED <<library, playlists, current_playlist, current_track_index,
                               plRet, plTrack>>
           ELSE LET m == OpenedInto(Mgr, file_paths)
                    p == OnSignals(Player, m.em)
                IN /\ SetMgrVars(m)
                   /\ SetPlayer(IF m.cur \notin {None, ""} /\ ~is_playing(p)
                                THEN _play_track([p EXCEPT !.track = get_current_track(m)],
                                                 file_paths[1])
                                ELSE p,
                                PyOp("open_file", <<>>, -1))
                   /\ library' = AppendToLibrary(library, file_paths)
                   /\ libEmitted' = <<LibSig("libraryUpdated", -1)>>
        /\ UNCHANGED <<scanners, scanQueue, current_scanner, libFile, libRet,
                       plFile, plSaved, selItems, selCur, sliderVars, labelVars, mdVars, mpVars>>

\* LibraryManager.save_library
SaveLibrary ==
    \E io \in IoOutcomes :
        /\ libFile' = CASE io = "ok" -> [exists |-> TRUE, bad |-> FALSE, list |-> library]
                        [] io = "open_failed" -> libFile
                        [] io = "write_failed" -> [exists |-> TRUE, bad |-> TRUE, list |-> <<>>]
        /\ libRet' = IF io = "ok" THEN 1 ELSE 0
        /\ libEmitted' = <<>>
        /\ libLast' = LibOp("save_library")
        /\ UNCHANGED <<library, scanners, scanQueue, current_scanner, mdVars, mpVars, plVars, pyVars>>

\* LibraryManager.load_library: json.load raises on a file that holds no
\* complete JSON text, before the library is assigned
LoadLibrary ==
    /\ libLast' = LibOp("load_library")
    /\ IF libFile.exists /\ ~libFile.bad
       THEN /\ library' = ExistingFiles(libFile.list)
            /\ libEmitted' = (IF Len(ExistingFiles(libFile.list)) # Len(libFile.list)
                              THEN <<LibSig("libraryUpdated", -1)>> ELSE <<>>)
                             \o <<LibSig("libraryUpdated", -1)>>
            /\ libRet' = Len(ExistingFiles(libFile.list))
       ELSE /\ libRet' = 0
            /\ libEmitted' = <<>>
            /\ UNCHANGED library
    /\ UNCHANGED <<scanners, scanQueue, current_scanner, libFile, mdVars, mpVars, plVars, pyVars>>

(***************************************************************************)
(* Player actions                                                          *)
(***************************************************************************)
\* LibraryView.trackSelected and PlaylistView.playTrack: MainWindow._play_track
PlayTrack ==
    \E file_path \in Tracks :
        /\ SetPlayer(_play_track(Player, file_path), PyOp("play_track", file_path, -1))
        /\ UNCHANGED <<sliderVars, labelVars, mdVars, mpVars, plVars, libVars>>

\* PlayerControls.toggle_play_pause
TogglePlayPause ==
    /\ SetPlayer(IF is_playing(Player) THEN pause(Player) ELSE play(Player),
                 PyOp("toggle_play_pause", <<>>, -1))
    /\ UNCHANGED <<sliderVars, labelVars, mdVars, mpVars, plVars, libVars>>

\* the user moves the volume slider; valueChanged, emitted when the value
\* changed, runs PlayerControls.set_volume
VolumeSliderInput ==
    \E v \in VolumeRequests :
        /\ volume_slider' = QSliderBound(VolumeMin, VolumeMax, v)
        /\ SetPlayer(IF volume_slider' # volume_slider
                     THEN set_volume(Player, volume_slider')
                     ELSE Player,
                     PyOp("volume_slider", <<>>, v))
        /\ UNCHANGED <<progress_slider, is_slider_pressed, labelVars, mdVars, mpVars, plVars, libVars>>

\* PlayerControls.slider_pressed
SliderPressed ==
    /\ ~is_slider_pressed
    /\ is_slider_pressed' = TRUE
    /\ SetPlayer(Player, PyOp("slider_pressed", <<>>, -1))
    /\ UNCHANGED <<volume_slider, progress_slider, labelVars, mdVars, mpVars, plVars, libVars>>

\* the user drags the handle of the progress slider
SliderMoved ==
    /\ is_slider_pressed
    /\ \E v \in ProgressPositions :
        /\ progress_slider' = v
        /\ SetPlayer(Player, PyOp("slider_moved", <<>>, v))
    /\ UNCHANGED <<volume_slider, is_slider_pressed, labelVars, mdVars, mpVars, plVars, libVars>>

\* PlayerControls.slider_released
SliderReleased ==
    /\ is_slider_pressed
    /\ is_slider_pressed' = FALSE
    /\ SetPlayer(set_position(Player, progress_slider),
                 PyOp("slider_released", <<>>, progress_slider))
    /\ UNCHANGED <<volume_slider, progress_slider, labelVars, mdVars, mpVars, plVars, libVars>>

\* the next definition without the test of is_slider_pressed
update_position_while_pressed(current_ms, total_ms) ==
    IF total_ms > 0
    THEN [slider |-> QSliderBound(0, ProgressMax, (current_ms * ProgressMax) \div total_ms),
          current |-> format_time(current_ms), total |-> format_time(total_ms)]
    ELSE [slider |-> progress_slider, current |-> current_time_label,
          total |-> total_time_label]

\* PlayerControls.update_position, the slot of positionChanged: the progress
\* slider and the two time labels after it
update_position(current_ms, total_ms) ==
    IF ~is_slider_pressed /\ total_ms > 0
    THEN [slider |-> QSliderBound(0, ProgressMax, (current_ms * ProgressMax) \div total_ms),
          current |-> format_time(current_ms), total |-> format_time(total_ms)]
    ELSE [slider |-> progress_slider, current |-> current_time_label,
          total |-> total_time_label]

\* the 100 ms timer fires: Player._update_position, and for the signal it
\* emits PlayerControls.update_position
Tick ==
    /\ SetPlayer(_update_position(Player), PyOp("tick", <<>>, -1))
    /\ LET em == _update_position(Player).em
           u == IF em # <<>> THEN update_position(em[1].current, em[1].length)
                ELSE [slider |-> progress_slider, current |-> current_time_label,
                      total |-> total_time_label]
       IN /\ progress_slider' = u.slider
          /\ current_time_label' = u.current
          /\ total_time_label' = u.total
    /\ UNCHANGED <<volume_slider, is_slider_pressed, mdVars, mpVars, plVars, libVars>>

\* the length in milliseconds of the media played
MediaLength == MaxLength * MsPerSecond

\* the engine moves on by itself: it opens the media and plays (the length
\* may be known only later) or fails to, the time advances (a second at a
\* time, up to the length), the media ends
EngineStep ==
    /\ vlc_available
    /\ \/ /\ media_player.state = "Opening"
          /\ \E l \in {0, MediaLength} :
                media_player' = [media_player EXCEPT !.state = "Playing", !.time = 0,
                                                     !.length = l]
       \/ /\ media_player.state = "Opening"
          /\ media_player' = [media_player EXCEPT !.state = "Error"]
       \/ /\ media_player.state = "Playing"
          /\ media_player.length = 0
          /\ media_player' = [media_player EXCEPT !.length = MediaLength]
       \/ /\ media_player.state = "Playing"
          /\ media_player.length > 0
          /\ media_player' =
                IF media_player.time < media_player.length
                THEN [media_player EXCEPT
                         !.time = IF @ + MsPerSecond > media_player.length
                                  THEN media_player.length ELSE @ + MsPerSecond]
                ELSE [media_player EXCEPT !.state = "Ended"]
    /\ pyEmitted' = <<>>
    /\ pyRet' = FALSE
    /\ pyLast' = PyOp("engine", <<>>, -1)
    /\ UNCHANGED <<vlc_available, current_media, current_track_path, sliderVars, labelVars,
                   play_pause_button, window_title, pyState, mdVars, mpVars, plVars, libVars>>

\* a client calls Player.load_media
LoadMedia ==
    \E file_path \in Tracks \cup {<<>>} :
        /\ SetPlayer(load_media(Player, file_path), PyOp("load_media", file_path, -1))
        /\ UNCHANGED <<sliderVars, labelVars, mdVars, mpVars, plVars, libVars>>

\* a client calls Player.play
Play ==
    /\ SetPlayer(play(Player), PyOp("play", <<>>, -1))
    /\ UNCHANGED <<sliderVars, labelVars, mdVars, mpVars, plVars, libVars>>

\* a client calls Player.pause
Pause ==
    /\ SetPlayer(pause(Player), PyOp("pause", <<>>, -1))
    /\ UNCHANGED <<sliderVars, labelVars, mdVars, mpVars, plVars, libVars>>

\* a client calls Player.stop
Stop ==
    /\ SetPlayer(stop(Player), PyOp("stop", <<>>, -1))
    /\ UNCHANGED <<sliderVars, labelVars, mdVars, mpVars, plVars, libVars>>

\* a client calls Player.set_position
SetPosition ==
    \E value \in ProgressPositions :
        /\ SetPlayer(set_position(Player, value), PyOp("set_position", <<>>, value))
        /\ UNCHANGED <<sliderVars, labelVars, mdVars, mpVars, plVars, libVars>>

\* a client calls Player.set_volume
SetVolume ==
    \E v \in VolumeRequests :
        /\ SetPlayer(set_volume(Player, v), PyOp("set_volume", <<>>, v))
        /\ UNCHANGED <<sliderVars, labelVars, mdVars, mpVars, plVars, libVars>>

\* AudioEffects.apply_preset: Player.set_equalizer
SetEqualizer ==
    \E preset \in Presets :
        /\ SetPlayer(set_equalizer(Player, preset), PyOp("set_equalizer", <<>>, -1))
        /\ UNCHANGED <<sliderVars, labelVars, mdVars, mpVars, plVars, libVars>>

(***************************************************************************)
(* The standalone player (main_player.py): the MusicPlayer window as a     *)
(* value, its handlers as maps from one to the next                        *)
(***************************************************************************)
\* the files the dialogs of the standalone player give
MpTracks == {P_song, P_wav}

\* history: the operation last run, the engine state and the index it found
MpOp(op, w) ==
    [op |-> op, state |-> w.media_player.state, index |-> w.current_track_index]

\* vlc_instance.media_player_new(): no media, no time, no length
NewEngine == [state |-> "NothingSpecial", media |-> <<>>, time |-> -1, length |-> -1]

\* MusicPlayer.__init__
NewMusicPlayer(available) ==
    [vlc_available |-> available, media_player |-> NewEngine, playlist |-> <<>>,
     current_track_index |-> -1, is_playing |-> FALSE, is_slider_pressed |-> FALSE,
     progress_slider |-> 0, current_time_label |-> format_time(0),
     total_time_label |-> format_time(0), play_pause_button |-> FALSE]

\* the standalone player where it is not the program run
MpInit ==
    /\ music_player = NewMusicPlayer(TRUE)
    /\ mpLast = MpOp("init", music_player)

\* media_player.pause(): toggles between playing and paused
engine_pause(e) ==
    IF e.state = "Playing" THEN [e EXCEPT !.state = "Paused"]
    ELSE IF e.state = "Paused" THEN [e EXCEPT !.state = "Playing"]
    ELSE e

\* media_player.play(): resumes a paused engine, leaves one that opens or
\* plays, starts one that has not played or was stopped; one whose media has
\* ended or failed starts again or stays (restarts)
engine_play(e, restarts) ==
    IF e.state = "Paused" THEN [e EXCEPT !.state = "Playing"]
    ELSE IF e.state \in {"Opening", "Playing"} THEN e
    ELSE IF e.state \in {"Ended", "Error"} /\ ~restarts THEN e
    ELSE [e EXCEPT !.state = "Opening", !.time = -1, !.length = 0]

\* MusicPlayer.load_and_play_current_track: set_media releases what the
\* engine was playing and play() starts to open the new media; an index past
\* the end raises IndexError, which is caught
load_and_play_current_track(w) ==
    IF ~w.vlc_available \/ w.playlist = <<>> \/ w.current_track_index < 0 THEN w
    ELSE IF w.current_track_index >= Len(w.playlist) THEN w
    ELSE [w EXCEPT !.media_player = [state |-> "Opening",
                                     media |-> w.playlist[w.current_track_index + 1],
                                     time |-> -1, length |-> 0],
                   !.is_playing = TRUE,
                   !.play_pause_button = TRUE]

\* MusicPlayer.play_next; Python's % takes the sign of the divisor
play_next(w) ==
    IF ~w.vlc_available \/ w.playlist = <<>> THEN w
    ELSE load_and_play_current_track(
            [w EXCEPT !.current_track_index = (@ + 1) % Len(w.playlist)])

\* MusicPlayer.play_previous
play_previous(w) ==
    IF ~w.vlc_available \/ w.playlist = <<>> THEN w
    ELSE load_and_play_current_track(
            [w EXCEPT !.current_track_index = (@ - 1) % Len(w.playlist)])

\* MusicPlayer.open_file for the files the dialog gave (add_to_playlist for
\* each, then the first track is started if none was current)
open_file(w, file_paths) ==
    IF ~w.vlc_available \/ file_paths = <<>> THEN w
    ELSE IF w.current_track_index = -1
         THEN load_and_play_current_track(
                 [w EXCEPT !.playlist = @ \o file_paths, !.current_track_index = 0])
         ELSE [w EXCEPT !.playlist = @ \o file_paths]

\* MusicPlayer.clear_playlist
clear_playlist(w) ==
    [w EXCEPT !.playlist = <<>>,
              !.current_track_index = -1,
              !.media_player = IF w.vlc_available /\ w.is_playing
                               THEN [@ EXCEPT !.state = "Stopped", !.time = -1]
                               ELSE @,
              !.is_playing = IF w.vlc_available /\ w.is_playing THEN FALSE ELSE @,
              !.play_pause_button = IF w.vlc_available /\ w.is_playing THEN FALSE ELSE @,
              !.current_time_label = format_time(0),
              !.total_time_label = format_time(0),
              !.progress_slider = 0]

\* MusicPlayer.playlist_item_clicked for the row i (from 0)
playlist_item_clicked(w, i) ==
    load_and_play_current_track([w EXCEPT !.current_track_index = i])

\* MusicPlayer.toggle_play_pause; without media it is open_file
toggle_play_pause(w, file_paths, restarts) ==
    IF ~w.vlc_available THEN w
    ELSE IF w.media_player.media = <<>> THEN open_file(w, file_paths)
    ELSE IF w.is_playing
         THEN [w EXCEPT !.media_player = engine_pause(@), !.is_playing = FALSE,
                        !.play_pause_button = FALSE]
         ELSE [w EXCEPT !.media_player = engine_play(@, restarts), !.is_playing = TRUE,
                        !.play_pause_button = TRUE]

\* MusicPlayer.set_position: the engine seeks while it plays or is paused
mp_set_position(w, position) ==
    IF w.vlc_available /\ w.media_player.state \in {"Playing", "Paused"}
    THEN [w EXCEPT !.media_player.time = (position * w.media_player.length) \div ProgressMax]
    ELSE w

\* the progress slider and the time labels after the first part of update_ui
update_progress(w) ==
    IF ~w.is_slider_pressed /\ w.media_player.length > 0
    THEN [w EXCEPT !.progress_slider =
                       QSliderBound(0, ProgressMax,
                                    (w.media_player.time * ProgressMax)
                                        \div w.media_player.length),
                   !.current_time_label = format_time(w.media_player.time),
                   !.total_time_label = format_time(w.media_player.length)]
    ELSE w

\* the next definition without the check for the end of the track
update_ui_without_end_check(w) ==
    IF ~w.vlc_available THEN w ELSE update_progress(w)

\* MusicPlayer.update_ui, the slot of the 200 ms timer
update_ui(w) ==
    IF ~w.vlc_available THEN w
    ELSE IF w.media_player.state = "Ended" THEN play_next(update_progress(w))
    ELSE update_progress(w)

\* a handler of the standalone player has run and left w
SetMusicPlayer(w, op) ==
    /\ music_player' = w
    /\ mpLast' = MpOp(op, music_player)
    /\ UNCHANGED <<mdVars, plVars, libVars, pyVars>>

\* the selections the file dialog can give: none (cancelled) or files, the
\* playlist staying within MaxPaths
MpSelections == {s \in SeqsUpTo(MpTracks, MaxPaths) :
                    Len(music_player.playlist) + Len(s) <= MaxPaths}

\* File > Open, the toolbar and the Add button: MusicPlayer.open_file
MpOpenFile ==
    \E file_paths \in MpSelections :
        SetMusicPlayer(open_file(music_player, file_paths), "open_file")

\* the Clear button: MusicPlayer.clear_playlist
MpClearPlaylist ==
    /\ music_player' = clear_playlist(music_player)
    /\ mpLast' = MpOp("clear_playlist", music_player)
    /\ UNCHANGED <<mdVars, plVars, libVars, pyVars>>

\* a double click on a row of the playlist
MpPlaylistItemClicked ==
    \E i \in 0..Len(music_player.playlist) - 1 :
        SetMusicPlayer(playlist_item_clicked(music_player, i), "playlist_item_clicked")

\* the play/pause button and the Playback menu; the file dialog opens only
\* when the engine has no media
MpTogglePlayPause ==
    \E file_paths \in IF music_player.media_player.media = <<>> THEN MpSelections
                      ELSE {<<>>},
       restarts \in BOOLEAN :
        SetMusicPlayer(toggle_play_pause(music_player, file_paths, restarts),
                       "toggle_play_pause")

\* the Next button and the Playback menu
MpPlayNext ==
    /\ music_player' = play_next(music_player)
    /\ mpLast' = MpOp("play_next", music_player)
    /\ UNCHANGED <<mdVars, plVars, libVars, pyVars>>

\* the Previous button and the Playback menu
MpPlayPrevious ==
    /\ music_player' = play_previous(music_player)
    /\ mpLast' = MpOp("play_previous", music_player)
    /\ UNCHANGED <<mdVars, plVars, libVars, pyVars>>

\* MusicPlayer.slider_pressed
MpSliderPressed ==
    /\ music_player.vlc_available
    /\ ~music_player.is_slider_pressed
    /\ SetMusicPlayer([music_player EXCEPT !.is_slider_pressed = TRUE], "slider_pressed")

\* the values a drag of the handle gives: the two ends of the slider
MpPositions == {0, ProgressMax}

\* the user drags the handle: sliderMoved runs MusicPlayer.set_position
MpSliderMoved ==
    /\ music_player.is_slider_pressed
    /\ \E v \in MpPositions :
          SetMusicPlayer(mp_set_position([music_player EXCEPT !.progress_slider = v], v),
                         "slider_moved")

\* MusicPlayer.slider_released
MpSliderReleased ==
    /\ music_player.is_slider_pressed
    /\ SetMusicPlayer(mp_set_position([music_player EXCEPT !.is_slider_pressed = FALSE],
                                      music_player.progress_slider),
                      "slider_released")

\* the 200 ms timer fires: MusicPlayer.update_ui
MpUpdateUi ==
    /\ music_player' = update_ui(music_player)
    /\ mpLast' = MpOp("update_ui", music_player)
    /\ UNCHANGED <<mdVars, plVars, libVars, pyVars>>

\* the moves the engine makes by itself: it opens the media and plays (the
\* length may be known only later) or fails to, the time advances (a second
\* at a time, up to the length), the media ends
EngineMoves(e) ==
    (IF e.state = "Opening"
     THEN {[e EXCEPT !.state = "Playing", !.time = 0, !.length = l] : l \in {0, MediaLength}}
          \cup {[e EXCEPT !.state = "Error"]}
     ELSE {})
    \cup (IF e.state = "Playing" /\ e.length = 0
          THEN {[e EXCEPT !.length = MediaLength]} ELSE {})
    \cup (IF e.state = "Playing" /\ e.length > 0
          THEN {IF e.time < e.length
                THEN [e EXCEPT !.time = IF @ + MsPerSecond > e.length THEN e.length
                                        ELSE @ + MsPerSecond]
                ELSE [e EXCEPT !.state = "Ended"]}
          ELSE {})

\* the engine of the standalone player moves on by itself
MpEngineStep ==
    /\ music_player.vlc_available
    /\ \E e \in EngineMoves(music_player.media_player) :
          SetMusicPlayer([music_player EXCEPT !.media_player = e], "engine")

(***************************************************************************)
(* Specification of the playlist manager in memory: the list operations    *)
(***************************************************************************)
PlaylistInit ==
    /\ MdInit(Tracks)
    /\ MpInit
    /\ MUTAGEN_AVAILABLE = TRUE
    /\ PlInit
    /\ LibInit
    /\ PyInit
    /\ vlc_available = TRUE

PlaylistNext ==
    \/ CreatePlaylist
    \/ AddToPlaylist(Tracks)
    \/ AddFilesToPlaylist
    \/ RemoveFromPlaylist

SpecPlaylist == PlaylistInit /\ [][PlaylistNext]_vars

(***************************************************************************)
(* Specification of playlist creation and selection: the manager with the  *)
(* view's New Playlist dialog and playlist selector                        *)
(***************************************************************************)
PlaylistViewNext ==
    \/ CreatePlaylist
    \/ CreateNewPlaylist
    \/ AddToPlaylist(PersistTracks)
    \/ SetCurrentPlaylist

SpecPlaylistView == PlaylistInit /\ [][PlaylistViewNext]_vars

(***************************************************************************)
(* Specification of moving through the current playlist: lists that grow   *)
(* and shrink under a current index, Next and Previous                     *)
(***************************************************************************)
NavigateNext ==
    \/ AddToCurrentPlaylist
    \/ RemoveSelected
    \/ PlaySelected
    \/ PlayNext
    \/ PlayPrevious

SpecNavigate == PlaylistInit /\ [][NavigateNext]_vars

(***************************************************************************)
(* Specification of the same with the full-screen player shown: its Next   *)
(* and Previous beside those of the main window                            *)
(***************************************************************************)
FullscreenPlayerNext ==
    \/ AddToCurrentPlaylist
    \/ RemoveSelected
    \/ PlaySelected
    \/ PlayNext
    \/ PlayPrevious
    \/ FullscreenNextTrack
    \/ FullscreenPreviousTrack

SpecFullscreen == PlaylistInit /\ [][FullscreenPlayerNext]_vars

(***************************************************************************)
(* Specification of the standalone player: its playlist, its controls, its *)
(* polling timer and the engine's own progress                             *)
(***************************************************************************)
StandaloneInit ==
    /\ MdInit(MpTracks)
    /\ MUTAGEN_AVAILABLE = TRUE
    /\ PlInit
    /\ LibInit
    /\ PyInit
    /\ vlc_available = TRUE
    /\ \E available \in BOOLEAN : music_player = NewMusicPlayer(available)
    /\ mpLast = MpOp("init", music_player)

StandaloneNext ==
    \/ MpOpenFile
    \/ MpClearPlaylist
    \/ MpPlaylistItemClicked
    \/ MpTogglePlayPause
    \/ MpPlayNext
    \/ MpPlayPrevious
    \/ MpSliderPressed
    \/ MpSliderMoved
    \/ MpSliderReleased
    \/ MpUpdateUi
    \/ MpEngineStep

SpecStandalone == StandaloneInit /\ [][StandaloneNext]_vars

\* the same with what runs by itself: the 200 ms QTimer started in
\* setup_media_player keeps firing
SpecStandaloneFair == SpecStandalone /\ WF_vars(MpUpdateUi)

(***************************************************************************)
(* Specification of playlist persistence across sessions                   *)
(***************************************************************************)
PersistNext ==
    \/ CreatePlaylist
    \/ AddToPlaylist(PersistTracks)
    \/ SavePlaylists
    \/ LoadPlaylists
    \/ NewSession
    \/ DeleteFile(PersistTracks)

SpecPersist == PlaylistInit /\ [][PersistNext]_vars


(***************************************************************************)
(* Specification of loading whatever file is found: playlists that are     *)
(* saved, a file the program did not write, loads over playlists in memory *)
(***************************************************************************)
LoadNext ==
    \/ CreatePlaylist
    \/ AddToPlaylist(PersistTracks)
    \/ SavePlaylists
    \/ ForeignFile
    \/ LoadPlaylists

SpecLoad == PlaylistInit /\ [][LoadNext]_vars

(***************************************************************************)
(* Specification of the metadata handler: one file that is rewritten, one  *)
(* that stays, and calls for these and for missing paths                   *)
(***************************************************************************)
MetaInit ==
    /\ \E a \in MetaPaths : MdInit({a, P_fixed})
    /\ MpInit
    /\ MUTAGEN_AVAILABLE \in BOOLEAN
    /\ PlInit
    /\ LibInit
    /\ PyInit
    /\ vlc_available = TRUE

MetaNext == ExtractMetadata \/ ClearCache \/ TouchFile

SpecMeta == MetaInit /\ [][MetaNext]_vars

(***************************************************************************)
(* Specification of the library: scans in pool threads, Open File, and the *)
(* library file across sessions, over files that can disappear             *)
(***************************************************************************)
LibraryInit ==
    /\ MdInit(LibPaths)
    /\ MpInit
    /\ MUTAGEN_AVAILABLE = TRUE
    /\ PlInit
    /\ LibInit
    /\ PyInit
    /\ vlc_available = TRUE

LibraryNext ==
    \/ ScanDirectory
    \/ ScannerRun
    \/ OnScanFinished
    \/ OpenFile
    \/ SaveLibrary
    \/ LoadLibrary
    \/ DeleteFile({P_wav})
    \/ NewSession

SpecLibrary == LibraryInit /\ [][LibraryNext]_vars

(***************************************************************************)
(* Specification of scanning alone: scans that are started, cancelled and  *)
(* finished, their walks ending well or not                                *)
(***************************************************************************)
ScanNext ==
    \/ ScanDirectory
    \/ CancelScan
    \/ ScannerRun
    \/ ScannerRaises
    \/ OnScanFinished

\* a music folder of two files
ScanInit ==
    /\ MdInit({P_wav, P_song})
    /\ MpInit
    /\ MUTAGEN_AVAILABLE = TRUE
    /\ PlInit
    /\ LibInit
    /\ PyInit
    /\ vlc_available = TRUE

SpecScan == ScanInit /\ [][ScanNext]_vars

\* the same with what runs by itself: the thread pool runs every worker it
\* was given, and the main thread's event loop delivers the signals posted
SpecScanFair ==
    /\ SpecScan
    /\ \A i \in 1..MaxScans : WF_vars(Worker(i))
    /\ WF_vars(OnScanFinished)

(***************************************************************************)
(* Specification of the player: tracks played from the views, the          *)
(* controls, the polling timer and the engine's own progress               *)
(***************************************************************************)
PlayerInit ==
    /\ MdInit(Tracks)
    /\ MpInit
    /\ MUTAGEN_AVAILABLE = TRUE
    /\ PlInit
    /\ LibInit
    /\ PyInit
    /\ vlc_available \in BOOLEAN

PlayerNext ==
    \/ PlayTrack
    \/ TogglePlayPause
    \/ VolumeSliderInput
    \/ SliderPressed
    \/ SliderMoved
    \/ SliderReleased
    \/ Tick
    \/ EngineStep

SpecPlayer == PlayerInit /\ [][PlayerNext]_vars

\* the same with what runs by itself: the 100 ms QTimer started in
\* Player.__init__ keeps firing, and the engine's threads keep running
SpecPlayerFair == SpecPlayer /\ WF_vars(Tick) /\ WF_vars(EngineStep)

(***************************************************************************)
(* Specification of the facade alone: its methods called in any order,     *)
(* with or without an engine                                               *)
(***************************************************************************)
FacadeNext ==
    \/ LoadMedia
    \/ Play
    \/ Pause
    \/ Stop
    \/ SetPosition
    \/ SetVolume
    \/ SetEqualizer
    \/ Tick
    \/ EngineStep

SpecFacade == PlayerInit /\ [][FacadeNext]_vars

(***************************************************************************)
(* Properties of the metadata handler                                      *)
(***************************************************************************)
\* t is s with some characters left out
RECURSIVE IsSubseq(_, _)
IsSubseq(t, s) ==
    IF t = <<>> THEN TRUE
    ELSE IF s = <<>> THEN FALSE
    ELSE IF Head(t) = Head(s) THEN IsSubseq(Tail(t), Tail(s))
    ELSE IsSubseq(t, Tail(s))

\* the path whose name the last call derived its fallback title from
NamedPath == IF mdLast.path = <<>> THEN UnknownFile ELSE mdLast.path

\* C1: every record extract_metadata returns (tags read, tagging library
\* unavailable, extraction error, missing or empty path) has a non-empty
\* title; when no title tag was read the title is taken from the file name:
\* the base name without extension when the tag reader ran, a part of it
\* when the record is the basic one.
C1_FallbackTitle ==
    mdLast.op = "extract" =>
        /\ mdLast.rec.title # <<>>
        /\ mdLast.how \in {"missing", "nomutagen", "error"} =>
               IsSubseq(mdLast.rec.title, StemOf[NamedPath])
        /\ (mdLast.how = "mutagen" /\ ~fs[mdLast.path].hasTitle) =>
               mdLast.rec.title = StemOf[mdLast.path]

\* C2: once extract_metadata(p) has returned a record for an existing file
\* p, a later extract_metadata(p) with p's file unchanged in between returns
\* the cached record, however the first record was produced.
C2_CachedWhileUnchanged ==
    (mdLast.op = "extract" /\ mdLast.wasFresh) => mdLast.how = "cache"

\* C3 (state part): a record served from the cache carries the file's current
\* modification time; a cached record of another modification time is never
\* served: the file is extracted again and the new record replaces the entry.
C3_NoStaleRecord ==
    mdLast.op = "extract" =>
        /\ mdLast.how = "cache" =>
              /\ mdLast.rec.mtime = fs[mdLast.path].mtime
              /\ mdLast.rec = cache[mdLast.path]
        /\ mdLast.stale => mdLast.how \in {"mutagen", "nomutagen", "error"}
        /\ mdLast.how \in {"mutagen", "nomutagen", "error"} =>
              /\ mdLast.path \in DOMAIN cache
              /\ cache[mdLast.path] = mdLast.rec
        /\ mdLast.how = "mutagen" => mdLast.rec.mtime = fs[mdLast.path].mtime

\* C3 (step part): an extract_metadata call changes no cache entry but that
\* of the path it was called with.
C3_OtherEntriesKept ==
    mdLast'.op = "extract" =>
        \A q \in (DOMAIN cache \cup DOMAIN cache') \ {mdLast'.path} :
            /\ q \in DOMAIN cache
            /\ q \in DOMAIN cache'
            /\ cache'[q] = cache[q]

\* C3: extract_metadata never returns a cached record whose modification
\* time differs from the file's; on a change it extracts again and replaces
\* the entry of that path, leaving the entries of other paths unchanged.
C3_MtimeInvalidation == []C3_NoStaleRecord /\ [][C3_OtherEntriesKept]_vars

\* C3 witness: a stale entry was replaced by a record of the current
\* modification time while another path stayed cached
C3_Witness ==
    /\ mdLast.op = "extract"
    /\ mdLast.stale
    /\ mdLast.how = "mutagen"
    /\ cache[mdLast.path].mtime = fs[mdLast.path].mtime
    /\ \E q \in DOMAIN cache : q # mdLast.path

(***************************************************************************)
(* Properties of the playlist manager                                      *)
(***************************************************************************)
\* no two playlists have the same name
UniqueNames ==
    \A i, j \in 1..Len(playlists) : playlists[i].name = playlists[j].name => i = j

\* the playlists as a map from name to tracks
AsMap(pl) == [n \in {pl[i].name : i \in 1..Len(pl)} |-> DictGet(pl, n)]

\* C4 (step part): create_playlist with an empty or an existing name returns
\* False, emits nothing and changes no playlist; with a new name it adds one
\* empty playlist and keeps the others. The New Playlist dialog changes
\* nothing either for an empty or an existing name.
C4_CreateStep ==
    /\ plLast'.op = "create_playlist" =>
          IF plLast'.name = "" \/ HasKey(playlists, plLast'.name)
          THEN /\ plRet' = FALSE
               /\ plEmitted' = <<>>
               /\ playlists' = playlists
          ELSE /\ plRet' = TRUE
               /\ Len(playlists') = Len(playlists) + 1
               /\ DOMAIN AsMap(playlists') = DOMAIN AsMap(playlists) \cup {plLast'.name}
               /\ AsMap(playlists')[plLast'.name] = <<>>
               /\ \A n \in DOMAIN AsMap(playlists) : AsMap(playlists')[n] = AsMap(playlists)[n]
    /\ (plLast'.op = "create_new_playlist"
            /\ (plLast'.name = "" \/ HasKey(playlists, plLast'.name))) =>
          /\ plEmitted' = <<>>
          /\ playlists' = playlists

\* C4: playlist names are unique; create_playlist refuses an empty or an
\* existing name without any effect and otherwise adds exactly one new empty
\* playlist under that name.
C4_UniqueNames == []UniqueNames /\ [][C4_CreateStep]_vars

\* C4 witness: a second create_playlist for the name of a playlist that
\* holds tracks was refused
C4_Witness ==
    /\ plLast.op = "create_playlist"
    /\ plRet = FALSE
    /\ HasKey(playlists, plLast.name)
    /\ DictGet(playlists, plLast.name) # <<>>
    /\ Len(playlists) = 2

\* the paths of `paths` that are not in `old`, each once, in the order given
RECURSIVE NewPaths(_, _)
NewPaths(paths, old) ==
    IF paths = <<>> THEN <<>>
    ELSE IF InList(Head(paths), old) THEN NewPaths(Tail(paths), old)
    ELSE <<Head(paths)>> \o NewPaths(Tail(paths), Append(old, Head(paths)))

\* the playlists other than `name` are what they were
OthersKept(name) ==
    /\ Len(playlists') = Len(playlists)
    /\ \A i \in 1..Len(playlists) :
          /\ playlists'[i].name = playlists[i].name
          /\ playlists[i].name # name => playlists'[i].tracks = playlists[i].tracks

\* C5 (step): the add operations extend the named playlist by the new paths
\* in the order given; remove_from_playlist(name, i) with 0 <= i < len drops
\* position i and keeps the order of the rest, and with an unknown name or
\* another index returns False and changes nothing.
C5_ListStep ==
    /\ (plLast'.op \in {"add_to_playlist", "add_files_to_playlist"}
            /\ HasKey(playlists, plLast'.name)) =>
          LET old == DictGet(playlists, plLast'.name)
          IN /\ OthersKept(plLast'.name)
             /\ DictGet(playlists', plLast'.name) = old \o NewPaths(plLast'.paths, old)
    /\ (plLast'.op = "remove_from_playlist" /\ HasKey(playlists, plLast'.name)
            /\ 0 <= plLast'.index
            /\ plLast'.index < Len(DictGet(playlists, plLast'.name))) =>
          LET old == DictGet(playlists, plLast'.name)
              new == DictGet(playlists', plLast'.name)
          IN /\ plRet' = TRUE
             /\ OthersKept(plLast'.name)
             /\ Len(new) = Len(old) - 1
             /\ \A j \in 1..Len(new) :
                   new[j] = old[IF j <= plLast'.index THEN j ELSE j + 1]
    /\ (plLast'.op = "remove_from_playlist"
            /\ ~(HasKey(playlists, plLast'.name) /\ 0 <= plLast'.index
                   /\ plLast'.index < Len(DictGet(playlists, plLast'.name)))) =>
          /\ plRet' = FALSE
          /\ plEmitted' = <<>>
          /\ playlists' = playlists

\* C5: a playlist is an ordered sequence (see C5_ListStep).
C5_OrderedSequence == [][C5_ListStep]_vars

\* C5 witness: the middle one of three tracks was removed
C5_Witness ==
    /\ plLast.op = "remove_from_playlist"
    /\ plLast.index = 1
    /\ plRet = TRUE
    /\ Len(DictGet(playlists, plLast.name)) = 2

(***************************************************************************)
(* Properties of playlist persistence                                      *)
(***************************************************************************)
\* every track of the playlists pl is on disk
AllPresent(pl) ==
    \A i \in 1..Len(pl) : \A j \in 1..Len(pl[i].tracks) : pl[i].tracks[j] \in DOMAIN fs

\* the playlists of pl that hold at least one track
NonEmptyOnly(pl) == SelectSeq(pl, LAMBDA e : e.tracks # <<>>)

\* a load_playlists that read the file of the last successful save, with
\* every track the file names on disk
LoadedAllPresent ==
    /\ plLast.op = "load_playlists"
    /\ plRet = TRUE
    /\ AllPresent(plSaved)

\* C8 as stated: save_playlists followed by load_playlists from the same
\* file, with every referenced track present, restores the same playlist
\* names, each with the same tracks in the same order.
C8_RoundTrip == LoadedAllPresent => AsMap(playlists) = AsMap(plSaved)

\* C8 as amended: save_playlists followed by load_playlists from the same
\* file, with every referenced track present, restores exactly the playlists
\* that held at least one track, each with the same tracks in the same
\* order; a playlist saved empty is not restored.
C8_RoundTripNonEmpty ==
    LoadedAllPresent =>
        /\ AsMap(playlists) = AsMap(NonEmptyOnly(plSaved))
        /\ Keys(playlists) = Keys(NonEmptyOnly(plSaved))

\* C8 witness: of two saved playlists, the one with two tracks came back and
\* the empty one did not
C8_Witness ==
    /\ LoadedAllPresent
    /\ Len(plSaved) = 2
    /\ Len(playlists) = 1
    /\ Len(playlists[1].tracks) = 2

\* C14: after load_playlists returns True, every track of every in-memory
\* playlist existed on disk at load time and no playlist is empty, and
\* playlistChanged was emitted exactly once for each kept playlist with its
\* pruned track list.
C14_LoadedPruned ==
    (plLast.op = "load_playlists" /\ plRet = TRUE) =>
        /\ AllPresent(playlists)
        /\ \A i \in 1..Len(playlists) : playlists[i].tracks # <<>>
        /\ Len(plEmitted) = Len(playlists)
        /\ \A i \in 1..Len(playlists) :
               \E j \in 1..Len(plEmitted) :
                   plEmitted[j] = playlistChanged(playlists[i].name, playlists[i].tracks)

\* C14 witness: of two saved playlists one came back shorter by a track
\* that is gone, and the other, left without a track, did not come back
C14_Witness ==
    /\ plLast.op = "load_playlists"
    /\ plRet = TRUE
    /\ Len(plSaved) = 2
    /\ Len(playlists) = 1
    /\ Len(DictGet(plSaved, playlists[1].name)) = 2
    /\ Len(playlists[1].tracks) = 1
    /\ Len(plEmitted) = 1

\* C15: if load_playlists returns False (file missing, unreadable, not valid
\* JSON, or JSON not of the shape name -> list of paths), the in-memory
\* playlists are exactly as they were before the call.
C15_FailedLoadKeeps ==
    [][(plLast'.op = "load_playlists" /\ plRet' = FALSE) => playlists' = playlists]_vars

(***************************************************************************)
(* Properties of the library manager                                       *)
(***************************************************************************)
\* C6: the library never holds the same path twice, whatever scans complete
\* (overlapping ones of the same folder included), whatever files are opened
\* and however the library is saved and loaded.
C6_NoDuplicatePaths ==
    \A i, j \in 1..Len(library) : library[i] = library[j] => i = j

\* C6 witness: a scan completed that found only files the library already
\* held, some of them opened by the user and some found by an earlier scan
C6_Witness ==
    /\ libLast.op = "_on_scan_finished"
    /\ libEmitted = <<LibSig("scanFinished", 0)>>
    /\ Len(library) = Cardinality(Scannable)
    /\ library # Walk(MusicDir)

\* the paths of a list that exist on disk
Existing(list) == {k \in 1..Len(list) : list[k] \in DOMAIN fs}

\* what load_library leaves when it has read the list of the file: the
\* paths of the list that exist, in the order of the list, and their number
LoadedAndPruned ==
    /\ \A i \in 1..Len(library') : library'[i] \in DOMAIN fs
    /\ IsSubseq(library', libFile.list)
    /\ Len(library') = Cardinality(Existing(libFile.list))
    /\ libRet' = Len(library')

NotLoaded ==
    /\ libRet' = 0
    /\ library' = library

\* C7 as stated: after load_library for an existing library file every path
\* of the library exists on disk, the kept paths are in their saved order and
\* the value returned is their number; when the file does not exist the call
\* returns 0 and leaves the library unchanged.
C7_LoadPrunes ==
    [][libLast'.op = "load_library" =>
          IF libFile.exists THEN LoadedAndPruned ELSE NotLoaded]_vars

\* C7 amended: the same for an existing library file that holds the list
\* save_library wrote; when the file does not exist, or exists and holds no
\* complete JSON text, the call returns 0 and leaves the library unchanged.
C7_LoadPrunesReadable ==
    [][libLast'.op = "load_library" =>
          IF libFile.exists /\ ~libFile.bad THEN LoadedAndPruned ELSE NotLoaded]_vars

\* C7 witness: a load kept two paths of a saved list of three, one file
\* having disappeared
C7_Witness ==
    /\ libLast.op = "load_library"
    /\ Len(libFile.list) = 3
    /\ libRet = 2
    /\ Len(library) = 2

(***************************************************************************)
(* Properties of the player                                                *)
(***************************************************************************)
\* C9: every value that reaches the engine through Player.set_volume is an
\* integer between 0 and 100 inclusive.
C9_VolumeInRange ==
    \A i \in 1..Len(media_player.volume) : media_player.volume[i] \in 0..100

\* C9 witness: a move of the slider that asked for more than 100 set the
\* engine's volume to 100
C9_Witness ==
    /\ pyLast.op = "volume_slider"
    /\ pyLast.n > 100
    /\ media_player.volume = <<100>>

\* C10 (one step): a tick changes neither current_media nor the engine (its
\* state, time, length and volume) nor the volume slider; it emits nothing
\* or positionChanged(current, length) once, and emits only when the engine
\* is playing with length > 0 and current >= 0.
TickStep ==
    pyLast'.op = "tick" =>
        /\ current_media' = current_media
        /\ media_player' = media_player
        /\ vlc_available' = vlc_available
        /\ volume_slider' = volume_slider
        /\ \/ pyEmitted' = <<>>
           \/ pyEmitted' = <<PySig("positionChanged", "", <<>>,
                                   media_player.time, media_player.length)>>
        /\ pyEmitted' # <<>> =>
              /\ vlc_available
              /\ media_player.state = "Playing"
              /\ media_player.length > 0
              /\ media_player.time >= 0

\* C10: the polling timer is read-only: a tick of Player._update_position
\* changes no player state; its only effect is to emit positionChanged, and
\* only when the engine is playing with length > 0 and current >= 0.
C10_TickReadOnly == [][TickStep]_vars

\* C10 witness: a tick emitted positionChanged while a track was playing
C10_Witness ==
    /\ pyLast.op = "tick"
    /\ Len(pyEmitted) = 1
    /\ pyEmitted[1].current > 0
    /\ media_player.state = "Playing"

(***************************************************************************)
(* Properties of the facade without an engine                              *)
(***************************************************************************)
FacadeOps == {"load_media", "play", "pause", "stop", "set_position", "set_volume",
              "set_equalizer"}

\* C11: when the media engine is unavailable, every facade operation
\* (load_media, play, pause, stop, set_position, set_volume, set_equalizer)
\* returns False, emits no signal and leaves current_media unchanged,
\* is_playing returns False and get_state returns 'unavailable'.
C11_Unavailable ==
    /\ [](~vlc_available => ~is_playing(Player) /\ get_state(Player) = "unavailable")
    /\ [][(~vlc_available /\ pyLast'.op \in FacadeOps) =>
            /\ pyRet' = FALSE
            /\ pyEmitted' = <<>>
            /\ current_media' = current_media
            /\ media_player' = media_player]_vars

\* stop has been called on a player without an engine
C11_Witness ==
    /\ ~vlc_available
    /\ pyLast.op = "stop"
    /\ pyRet = FALSE
    /\ get_state(Player) = "unavailable"

(***************************************************************************)
(* Properties of the playing indicator                                     *)
(***************************************************************************)
\* C12: the playing/not-playing indicator of the controls tracks the media
\* engine's state: whenever the engine is not playing (after a pause, a
\* stop, the natural end of the track or an engine error) the play/pause
\* button eventually shows 'not playing' unless the engine plays again, and
\* whenever the engine is playing the button eventually shows 'playing'
\* unless the engine leaves that state.
C12_IndicatorTracksEngine ==
    /\ (media_player.state # "Playing") ~>
            (~play_pause_button \/ media_player.state = "Playing")
    /\ (media_player.state = "Playing") ~>
            (play_pause_button \/ media_player.state # "Playing")

(***************************************************************************)
(* Properties of Next and Previous                                         *)
(***************************************************************************)
\* a modulo n as mathematics has it: the remainder in 0..n-1
Mod(a, n) == CHOOSE r \in 0..(n - 1) : \E q \in -(n + 4)..(n + 4) : a = q * n + r

\* C13 for one call: what next_track (step = 1) or previous_track (step = -1)
\* has to do to the state it found
C13_Moved(step) ==
    IF current_playlist \notin {None, ""} /\ DictGet(playlists, current_playlist) # <<>>
    THEN LET l == DictGet(playlists, current_playlist)
             j == Mod(current_track_index + step, Len(l))
         IN /\ current_track_index' = j
            /\ plTrack' = l[j + 1]
            /\ plEmitted' = <<currentTrackChanged(j, l[j + 1])>>
    ELSE /\ plTrack' = <<>>
         /\ plEmitted' = <<>>
         /\ current_track_index' = current_track_index

\* C13: with a current playlist of n >= 1 tracks, next_track sets
\* current_track_index to (i+1) mod n and previous_track sets it to
\* (i-1) mod n, each returns the path at the new index and emits
\* currentTrackChanged exactly once with that index and path; with no current
\* playlist or an empty one they return None, emit nothing and leave the
\* index unchanged.
C13_NextPrevious ==
    [][/\ plLast'.op = "next_track" => C13_Moved(1)
       /\ plLast'.op = "previous_track" => C13_Moved(-1)
       /\ plLast'.op \in {"next_track", "previous_track"} =>
              UNCHANGED <<playlists, current_playlist>>]_vars

\* previous_track has wrapped from the first track of three to the last
C13_Witness ==
    /\ plLast.op = "previous_track"
    /\ plLast.index = 0
    /\ current_track_index = 2
    /\ Len(DictGet(playlists, current_playlist)) = 3
    /\ plTrack = DictGet(playlists, current_playlist)[3]

(***************************************************************************)
(* Properties of scanning                                                  *)
(***************************************************************************)
\* the scanFinished signals among those of the last operation
ScanFinishedEmitted == SelectSeq(libEmitted, LAMBDA e : e.sig = "scanFinished")

\* a finished signal has just been handled for the worker that was at a
\* place up to i of those under way
Retired(i) == libLast.op = "_on_scan_finished" /\ libLast.at \in 1..i

\* C16 for one step: a scan_directory that returns True emits scanStarted
\* once and puts one running worker after those under way, one that returns
\* False emits nothing and creates none; handling a finished signal emits
\* scanFinished once and retires one worker, those after it moving one place
\* down; nothing else emits scanFinished, retires a worker or moves one
C16_Step ==
    /\ (libLast'.op = "scan_directory" /\ libRet' = 1) =>
           /\ libEmitted' = <<LibSig("scanStarted", -1)>>
           /\ Len(scanners') = Len(scanners) + 1
           /\ SubSeq(scanners', 1, Len(scanners)) = scanners
           /\ scanners'[Len(scanners')].status = "running"
    /\ (libLast'.op = "scan_directory" /\ libRet' = 0) =>
           /\ libEmitted' = <<>>
           /\ scanners' = scanners
    /\ libLast'.op = "_on_scan_finished" =>
           /\ Len(ScanFinishedEmitted') = 1
           /\ libLast'.at \in 1..Len(scanners)
           /\ scanners[libLast'.at].status = "finished"
           /\ scanners' = DelAt(scanners, libLast'.at - 1)
    /\ libLast'.op \in {"cancel_scan", "scanner_run", "scanner_raised"} =>
           ScanFinishedEmitted' = <<>>
    /\ libLast'.op \notin {"scan_directory", "_on_scan_finished"} =>
           Len(scanners') = Len(scanners)

\* the finished signal of a worker is posted once, when its run has ended
C16_PostedOnce ==
    \A i \in 1..Len(scanners) :
        Cardinality({k \in 1..Len(scanQueue) : scanQueue[k] = i})
            = IF scanners[i].status = "finished" THEN 1 ELSE 0

\* C16: every scan_directory call that returns True emits scanStarted once and
\* is eventually followed by exactly one scanFinished for that scan, whether
\* the directory walk completes, raises, or is cancelled (the worker thread
\* being scheduled); a call on a non-existent path returns False and emits
\* neither signal. A scan at place i of those under way leads to the
\* scanFinished of a scan at a place up to i: its own, or one that moves it a
\* place down, and from place 1 only its own is left.
C16_ScanFinishes ==
    /\ []C16_PostedOnce
    /\ [][C16_Step]_vars
    /\ \A i \in 1..MaxScans : (Len(scanners) >= i) ~> Retired(i)

\* C16 witness: the scanFinished of a scan that was cancelled is out while
\* another scan, started after it, is still walking
C16_Witness ==
    /\ libLast.op = "_on_scan_finished"
    /\ libLast.at = 1
    /\ Len(ScanFinishedEmitted) = 1
    /\ Len(scanners) = 1
    /\ scanners[1].status = "running"

\* some scan worker is still walking
ScanRunning == \E i \in 1..Len(scanners) : scanners[i].status = "running"

\* C17: an ongoing scan can always be cancelled: whenever at least one scan
\* worker is still running, current_scanner refers to a running worker, so
\* cancel_scan sets the abort flag of a running scan; this holds when
\* scan_directory is called again before the previous scan has finished and
\* when one of two overlapping scans finishes first.
C17_RunningScanCancellable ==
    ScanRunning =>
        /\ current_scanner # 0
        /\ scanners[current_scanner].status = "running"

(***************************************************************************)
(* Properties of the progress slider                                       *)
(***************************************************************************)
\* C18 for one step: while the slider is held a tick changes neither its
\* value nor the time labels; the release clears the flag and has the engine
\* seek, when it can, to the slider's value / ProgressMax of the length,
\* a time from 0 to the length, and changes nothing else of the player
C18_Step ==
    /\ (is_slider_pressed /\ pyLast'.op = "tick") =>
           /\ is_slider_pressed'
           /\ progress_slider' = progress_slider
           /\ current_time_label' = current_time_label
           /\ total_time_label' = total_time_label
    /\ pyLast'.op = "slider_released" =>
           /\ is_slider_pressed
           /\ ~is_slider_pressed'
           /\ progress_slider' = progress_slider
           /\ progress_slider \in 0..ProgressMax
           /\ pyLast'.n = progress_slider
           /\ pyEmitted' = <<>>
           /\ current_media' = current_media
           /\ IF pyRet'
              THEN /\ media_player' =
                         [media_player EXCEPT
                             !.time = (progress_slider * media_player.length) \div ProgressMax]
                   /\ media_player'.time \in 0..media_player.length
              ELSE media_player' = media_player

\* C18: while the progress slider is held (between sliderPressed and
\* sliderReleased), positionChanged updates from the player change neither
\* the slider value nor the time labels; on release the pressed flag is
\* cleared and the player is asked exactly once to seek to
\* slider_value/1000, a fraction in [0, 1].
C18_HeldSliderKept == [][C18_Step]_vars

\* C18 witness: the slider was let go in the middle while a track was playing
\* past it, and the engine is back at half the length; the labels still show
\* the time of the last tick before the slider was pressed
C18_Witness ==
    /\ pyLast.op = "slider_released"
    /\ pyRet
    /\ progress_slider = ProgressMax \div 2
    /\ media_player.time = MediaLength \div 2
    /\ current_time_label = format_time(MediaLength)
    /\ total_time_label = format_time(MediaLength)

(***************************************************************************)
(* Properties of the window title                                          *)
(***************************************************************************)
\* C19: whenever the last emitted player state is 'playing' or 'paused', the
\* window title names the track currently loaded in the player
\* (player.current_media), whether that track was started from the library
\* view, the playlist view, Open File, or Next/Previous; in every other
\* state the title is the bare application name.
C19_TitleNamesLoadedTrack ==
    IF pyState \in {"playing", "paused"}
    THEN current_media # <<>> /\ window_title = current_media
    ELSE window_title = <<>>

(***************************************************************************)
(* Properties of the full-screen player                                    *)
(***************************************************************************)
\* what a Next (step = 1) or Previous (step = -1) of the main window's
\* controls does to the state it finds: the manager moves as next_track or
\* previous_track moves it, and the track it gives, when the file exists,
\* is the one loaded in the player
C20_MovedAndPlayed(step) ==
    /\ C13_Moved(step)
    /\ UNCHANGED <<playlists, current_playlist>>
    /\ (plTrack' # <<>> /\ plTrack' \in DOMAIN fs) => current_media' = plTrack'

\* C20: pressing Next or Previous in the full-screen player (buttons, or the
\* Right/Left keys) makes playback move to the next or previous track of the
\* current playlist, exactly as the same request from the main window's
\* controls does.
C20_FullscreenMoves ==
    [][/\ plLast'.op = "fullscreen_next_track" => C20_MovedAndPlayed(1)
       /\ plLast'.op = "fullscreen_previous_track" => C20_MovedAndPlayed(-1)]_vars

\* the same of the main window's controls
C20_MainWindowMoves ==
    [][/\ plLast'.op = "next_track" => C20_MovedAndPlayed(1)
       /\ plLast'.op = "previous_track" => C20_MovedAndPlayed(-1)]_vars

(***************************************************************************)
(* Properties of the standalone player                                     *)
(***************************************************************************)
\* the engine of the standalone player reports Ended and there is a playlist
EndedWithPlaylist ==
    /\ music_player.vlc_available
    /\ music_player.media_player.state = "Ended"
    /\ music_player.playlist # <<>>

\* C21 for one step: a poll that finds the engine Ended and a playlist of n
\* tracks leaves the playlist as it is, sets the index to (i+1) mod n and has
\* the engine open the track at that index
C21_Step ==
    (mpLast'.op = "update_ui" /\ EndedWithPlaylist) =>
        LET n == Len(music_player.playlist)
            j == Mod(music_player.current_track_index + 1, n)
        IN /\ music_player'.playlist = music_player.playlist
           /\ music_player'.current_track_index = j
           /\ music_player'.media_player.media = music_player.playlist[j + 1]
           /\ music_player'.media_player.state = "Opening"
           /\ music_player'.is_playing

\* C21: in the standalone player (main_player.py), when the engine reports
\* the Ended state the next UI poll advances current_track_index to
\* (i+1) mod len(playlist) and starts that track, so with a non-empty playlist
\* playback never remains in Ended (a single-track playlist repeats).
C21_EndedAdvances ==
    /\ [][C21_Step]_vars
    /\ EndedWithPlaylist ~> ~EndedWithPlaylist

\* C21 witness: a poll found the only track of the playlist ended, and the
\* engine opens it again
C21_Witness ==
    /\ mpLast.op = "update_ui"
    /\ mpLast.state = "Ended"
    /\ mpLast.index = 0
    /\ Len(music_player.playlist) = 1
    /\ music_player.current_track_index = 0
    /\ music_player.media_player.state = "Opening"
    /\ music_player.media_player.media = music_player.playlist[1]
====
